---- MODULE Spec2Model ----
(***************************************************************************)
(* Model of the DOE experiment code: the 2^4 factorial design generator    *)
(* (src/2kfactorial/experiment_design.py), the RCBD framing generator      *)
(* (src/rcbd/prompt_generator.py), the pairwise consistency scorer         *)
(* (src/2kfactorial/consistency_analyzer.py, src/rcbd/...), the factorial  *)
(* and RCBD analyzers (src/2kfactorial/factorial_analyzer.py,              *)
(* src/rcbd/rcbd_analyzer.py), the power analysis                          *)
(* (src/2kfactorial/power_analysis.py) and the run of the 2^4 experiment   *)
(* (src/2kfactorial/run_experiment.py, main_experiment.py,                 *)
(* response_collector.py, config.py).                                      *)
(*                                                                         *)
(* Python values are represented as follows:                               *)
(*   list  -> sequence;  dict (insertion ordered) -> sequence of records   *)
(*   when the order is iterated, function when it is only indexed;         *)
(*   None / a value v -> the optional <<>> / <<v>>;                        *)
(*   a text -> a sequence of one-character strings.                        *)
(* Korean category names are transliterated to ASCII.                      *)
(***************************************************************************)
EXTENDS Integers, Sequences, FiniteSets, TLC

VARIABLES
    call,                    \* the last generator call: its name and arguments
    combinations,            \* value returned by generate_all_factor_combinations
    experimental_conditions, \* value returned by the last design generator
    raised,                  \* exception that left the last call ("" when it returned)
    questions_dict,          \* argument of batch_generate_framings
    api_fails,               \* the prompt-generation API calls that raise
    experimental_data,       \* value returned by batch_generate_framings
    scorer_op,               \* the scorer method called last ("none" before a call)
    response_list,           \* argument of compute_bert_multilingual_similarity
    backend,                 \* outcome of bert_score.score for each pair of positions
    similarity,              \* value returned by compute_bert_multilingual_similarity
    score_calls,             \* the bert_score.score calls made, in order
    scored_data,             \* experimental_data of analyze_consistency_for_experiment
    analysis_raised,         \* exception leaving analyze_consistency_for_experiment
    raw_text,                \* argument of the first clean_text call
    clean_results,           \* values returned by the successive clean_text calls
    analyzer_op,             \* the analyzer method called last ("none" before a call)
    analyzer_data,           \* experimental_data given to the analyzer
    dataframe,               \* the DataFrame built from it or given to the analysis
    fit_raises,              \* whether fitting the models raises on that DataFrame
    results,                 \* value returned by the analysis
    effect_sizes,            \* effect sizes printed by _analyze_main_effects
    analyzer_raised,         \* exception that left the analyzer call ("" when it returned)
    power_op,                \* the power-analysis function called last
    power_table,             \* the DataFrame given to calculate_effect_sizes
    cohen_effect_sizes,      \* effect sizes returned by it or given to the power analysis
    formula_raises,          \* whether the division of the sample-size formula raises
    power_results,           \* value returned by power_analysis_for_factors
    current_powers,          \* value returned by current_power_analysis
    power_raised,            \* exception that left the call ("" when it returned)
    run_pc,                  \* position of the run: the stage it is about to start
    run_args,                \* mode, save_intermediate, the API key and the user's answer
    announced,               \* the cost estimate printed before the confirmation
    run_units,               \* experimental_data of run_experiment
    run_started,             \* the stages that were started, in order
    files,                   \* the files of the output directory, in the order written
    run_result,              \* value returned by run_factorial_experiment
    run_raised               \* exception raised inside the run ("" when none)

designVars == <<call, combinations, experimental_conditions, raised>>
rcbdVars == <<questions_dict, api_fails, experimental_data>>
scoreVars == <<scorer_op, response_list, backend, similarity, score_calls,
               scored_data, analysis_raised>>
cleanVars == <<raw_text, clean_results>>
analyzerVars == <<analyzer_op, analyzer_data, dataframe, fit_raises, results,
                  effect_sizes, analyzer_raised>>
powerVars == <<power_op, power_table, cohen_effect_sizes, formula_raises,
               power_results, current_powers, power_raised>>
runVars == <<run_pc, run_args, announced, run_units, run_started, files,
             run_result, run_raised>>
vars == <<designVars, rcbdVars, scoreVars, cleanVars, analyzerVars, powerVars,
          runVars>>

\* the variables a component leaves alone
otherThanDesign ==
    <<rcbdVars, scoreVars, cleanVars, analyzerVars, powerVars, runVars>>
otherThanRcbd ==
    <<designVars, scoreVars, cleanVars, analyzerVars, powerVars, runVars>>
otherThanScore ==
    <<designVars, rcbdVars, cleanVars, analyzerVars, powerVars, runVars>>
otherThanClean ==
    <<designVars, rcbdVars, scoreVars, analyzerVars, powerVars, runVars>>
otherThanAnalyzer ==
    <<designVars, rcbdVars, scoreVars, cleanVars, powerVars, runVars>>
otherThanPower ==
    <<designVars, rcbdVars, scoreVars, cleanVars, analyzerVars, runVars>>
otherThanRun ==
    <<designVars, rcbdVars, scoreVars, cleanVars, analyzerVars, powerVars>>

None == <<>>
Some(v) == <<v>>

(***************************************************************************)
(* Bounds of the model.                                                    *)
(***************************************************************************)
\* largest questions_per_category passed to generate_subset_design
MaxLimit == 8
\* largest number of questions in one block of questions_dict
MaxBlockSize == 2
\* largest number of prompt-generation API calls that raise in one batch
MaxFailures == 2
\* largest response_list given to compute_bert_multilingual_similarity
MaxResponses == 3
\* largest number of units given to analyze_consistency_for_experiment
MaxUnits == 2
\* largest number of responses of a unit of analyze_consistency_for_experiment
MaxUnitResponses == 2
\* longest text given to clean_text
MaxTextLen == 6
\* largest number of units given to the analyzers
MaxAnalyzed == 3
\* largest number of rows of a table of sampled units given to
\* calculate_effect_sizes
MaxPowerRows == 5

(***************************************************************************)
(* Module-level declarations of experiment_design.py.                      *)
(***************************************************************************)
FACTORS ==
    << [name |-> "prompt_language", levels |-> <<"korean", "english">>],
       [name |-> "model",           levels |-> <<"gpt-3.5-turbo", "gpt-4o-mini">>],
       [name |-> "role_assignment", levels |-> <<"with_role", "no_role">>],
       [name |-> "explicitness",    levels |-> <<"high", "low">>] >>

\* categories: personality, creativity, logical_reasoning; the seven
\* questions of each block are distinct texts, named here by block and rank
QUESTION_BLOCKS ==
    << [category |-> "personality",
        questions |-> <<"P1", "P2", "P3", "P4", "P5", "P6", "P7">>],
       [category |-> "creativity",
        questions |-> <<"C1", "C2", "C3", "C4", "C5", "C6", "C7">>],
       [category |-> "logical_reasoning",
        questions |-> <<"L1", "L2", "L3", "L4", "L5", "L6", "L7">>] >>

factor_defaults ==
    [f \in {"prompt_language", "model", "role_assignment", "explicitness"} |->
        CASE f = "prompt_language" -> "korean"
          [] f = "model"           -> "gpt-4o-mini"
          [] f = "role_assignment" -> "no_role"
          [] f = "explicitness"    -> "low"]

\* names a caller may put in factors_to_test: the declared factors, the factor
\* that was removed from the design, and the 'all' marker of config.py
FactorNameInputs ==
    {FACTORS[i].name : i \in 1..Len(FACTORS)} \cup {"context_provision", "all"}

(***************************************************************************)
(* Helpers standing for Python built-ins.                                  *)
(***************************************************************************)
\* [e.name for e in seq]
Names(seq) == [i \in 1..Len(seq) |-> seq[i].name]
\* [e.levels for e in seq]
Levels(seq) == [i \in 1..Len(seq) |-> seq[i].levels]

\* dict(zip(names, values))
DictZip(names, values) ==
    [k \in {names[i] : i \in 1..Len(names)} |->
        values[CHOOSE i \in 1..Len(names) : names[i] = k]]

\* d.copy(); d.update(u)
DictUpdate(d, u) ==
    [k \in DOMAIN d \cup DOMAIN u |-> IF k \in DOMAIN u THEN u[k] ELSE d[k]]

\* a faulty variant of Product: the first pool varies fastest
RECURSIVE ProductFirstFastest(_)
ProductFirstFastest(pools) ==
    IF pools = <<>> THEN << <<>> >>
    ELSE LET rest == ProductFirstFastest(Tail(pools))
             pool == Head(pools)
         IN  [k \in 1..(Len(rest) * Len(pool)) |->
                 <<pool[((k - 1) % Len(pool)) + 1]>>
                    \o rest[((k - 1) \div Len(pool)) + 1]]

\* itertools.product(*pools):
\*   result = [[]]
\*   for pool in pools: result = [x + [y] for x in result for y in pool]
RECURSIVE Product(_)
Product(pools) ==
    IF pools = <<>> THEN << <<>> >>
    ELSE LET result == Product(SubSeq(pools, 1, Len(pools) - 1))
             pool   == pools[Len(pools)]
         IN  [k \in 1..(Len(result) * Len(pool)) |->
                 Append(result[((k - 1) \div Len(pool)) + 1],
                        pool[((k - 1) % Len(pool)) + 1])]

\* truthiness of an optional int: None and 0 are false
Truthy(opt) == opt # None /\ opt[1] # 0

\* seq[:n] for n >= 0
SliceTo(seq, n) == SubSeq(seq, 1, IF n < Len(seq) THEN n ELSE Len(seq))

(***************************************************************************)
(* generate_all_factor_combinations                                        *)
(***************************************************************************)
generate_all_factor_combinations ==
    LET factor_names  == Names(FACTORS)
        factor_values == Levels(FACTORS)
        combos        == Product(factor_values)
    IN  [k \in 1..Len(combos) |-> DictZip(factor_names, combos[k])]

(***************************************************************************)
(* The emission loops shared by the three design generators: the innermost *)
(* loop appends one condition per question and increments condition_id.    *)
(***************************************************************************)
\* for question in questions: append condition; condition_id += 1
EmitQuestions(combination, category, questions, condition_id) ==
    [i \in 1..Len(questions) |->
        [condition_id       |-> condition_id + i - 1,
         category           |-> category,
         base_question      |-> questions[i],
         factor_combination |-> combination]]

\* a faulty variant of EmitBlocks: the blocks are visited in reverse order
RECURSIVE EmitBlocksReversed(_, _, _)
EmitBlocksReversed(combination, blocks, condition_id) ==
    IF blocks = <<>> THEN <<>>
    ELSE LET last == EmitQuestions(combination, blocks[Len(blocks)].category,
                                   blocks[Len(blocks)].questions, condition_id)
         IN  last \o EmitBlocksReversed(combination,
                                        SubSeq(blocks, 1, Len(blocks) - 1),
                                        condition_id + Len(last))

\* for category, questions in blocks.items(): for question in questions: ...
RECURSIVE EmitBlocks(_, _, _)
EmitBlocks(combination, blocks, condition_id) ==
    IF blocks = <<>> THEN <<>>
    ELSE LET first == EmitQuestions(combination, Head(blocks).category,
                                    Head(blocks).questions, condition_id)
         IN  first \o EmitBlocks(combination, Tail(blocks),
                                 condition_id + Len(first))

\* for combination in combos: for category, questions in blocks.items(): ...
RECURSIVE EmitCombinations(_, _, _)
EmitCombinations(combos, blocks, condition_id) ==
    IF combos = <<>> THEN <<>>
    ELSE LET first == EmitBlocks(Head(combos), blocks, condition_id)
         IN  first \o EmitCombinations(Tail(combos), blocks,
                                       condition_id + Len(first))

(***************************************************************************)
(* generate_full_factorial_design                                          *)
(***************************************************************************)
generate_full_factorial_design ==
    EmitCombinations(generate_all_factor_combinations, QUESTION_BLOCKS, 1)

(***************************************************************************)
(* generate_representative_design                                          *)
(***************************************************************************)
\* a faulty variant of representative_questions: the last question of each block
representative_questions_last ==
    [b \in 1..Len(QUESTION_BLOCKS) |->
        [category  |-> QUESTION_BLOCKS[b].category,
         questions |-> <<QUESTION_BLOCKS[b].questions[
                             Len(QUESTION_BLOCKS[b].questions)]>>]]

\* {category: questions[0] for category, questions in QUESTION_BLOCKS.items()}
representative_questions ==
    [b \in 1..Len(QUESTION_BLOCKS) |->
        [category  |-> QUESTION_BLOCKS[b].category,
         questions |-> <<QUESTION_BLOCKS[b].questions[1]>>]]

generate_representative_design ==
    EmitCombinations(generate_all_factor_combinations,
                     representative_questions, 1)

(***************************************************************************)
(* generate_subset_design(factors_to_test, questions_per_category)         *)
(***************************************************************************)
\* {k: v for k, v in FACTORS.items() if k in factors_to_test}
test_factors(factors_to_test) ==
    SelectSeq(FACTORS, LAMBDA f : f.name \in factors_to_test)

\* a faulty variant of full_combination: the defaults overwrite the tested levels
full_combination_defaults_win(test_factor_names, combo) ==
    DictUpdate(DictZip(test_factor_names, combo), factor_defaults)

\* factor_defaults.copy() updated with dict(zip(test_factor_names, combo))
full_combination(test_factor_names, combo) ==
    DictUpdate(factor_defaults, DictZip(test_factor_names, combo))

\* questions[:questions_per_category] if questions_per_category else questions
selected_questions(questions, questions_per_category) ==
    IF Truthy(questions_per_category)
    THEN SliceTo(questions, questions_per_category[1])
    ELSE questions

generate_subset_design(factors_to_test, questions_per_category) ==
    LET tf     == test_factors(factors_to_test)
        combos == Product(Levels(tf))
        full   == [k \in 1..Len(combos) |-> full_combination(Names(tf), combos[k])]
        blocks == [b \in 1..Len(QUESTION_BLOCKS) |->
                     [category  |-> QUESTION_BLOCKS[b].category,
                      questions |-> selected_questions(
                                        QUESTION_BLOCKS[b].questions,
                                        questions_per_category)]]
    IN  EmitCombinations(full, blocks, 1)

(***************************************************************************)
(* The design generator as a state machine: each action is one call.  The  *)
(* generators are pure functions of the module-level declarations and of   *)
(* their arguments, so a behaviour is one call from the initial state.     *)
(***************************************************************************)
NoCall == [op |-> "none", factors_to_test |-> {}, questions_per_category |-> None]

DesignInit ==
    /\ call = NoCall
    /\ combinations = <<>>
    /\ experimental_conditions = <<>>
    /\ raised = ""

GenerateAllFactorCombinations ==
    /\ call = NoCall
    /\ call' = [NoCall EXCEPT !.op = "generate_all_factor_combinations"]
    /\ combinations' = generate_all_factor_combinations
    /\ experimental_conditions' = <<>>
    /\ raised' = ""
    /\ UNCHANGED otherThanDesign

GenerateFullFactorialDesign ==
    /\ call = NoCall
    /\ call' = [NoCall EXCEPT !.op = "generate_full_factorial_design"]
    /\ combinations' = generate_all_factor_combinations
    /\ experimental_conditions' = generate_full_factorial_design
    /\ raised' = ""
    /\ UNCHANGED otherThanDesign

GenerateRepresentativeDesign ==
    /\ call = NoCall
    /\ call' = [NoCall EXCEPT !.op = "generate_representative_design"]
    /\ combinations' = generate_all_factor_combinations
    /\ experimental_conditions' = generate_representative_design
    /\ raised' = ""
    /\ UNCHANGED otherThanDesign

GenerateSubsetDesign ==
    /\ call = NoCall
    /\ \E factors_to_test \in SUBSET FactorNameInputs :
       \E questions_per_category \in {None} \cup {Some(n) : n \in 0..MaxLimit} :
          /\ call' = [op |-> "generate_subset_design",
                      factors_to_test |-> factors_to_test,
                      questions_per_category |-> questions_per_category]
          /\ combinations' = <<>>
          /\ experimental_conditions' =
                 generate_subset_design(factors_to_test, questions_per_category)
          /\ raised' = ""
    /\ UNCHANGED otherThanDesign

DesignNext ==
    \/ GenerateAllFactorCombinations
    \/ GenerateFullFactorialDesign
    \/ GenerateRepresentativeDesign
    \/ GenerateSubsetDesign

(***************************************************************************)
(* src/rcbd/prompt_generator.py: FramingPromptGenerator.                   *)
(***************************************************************************)
\* the framing levels in the order generate_all_framings visits them
\* (neutral, emotional, provocative)
FRAMING_LEVELS == <<"neutral", "emotional", "provocative">>

\* the block names of the RCBD experiment
RCBD_CATEGORIES == <<"personality", "creativity", "logical_reasoning">>

\* generate_framed_prompt: the text the API returns, or the "[ERROR] ..."
\* string built in the except branch when the API call raises
generate_framed_prompt(base_question, framing_level, fails) ==
    IF <<base_question, framing_level>> \in fails
    THEN <<"[ERROR]", base_question, framing_level>>
    ELSE <<"framed", base_question, framing_level>>

\* a faulty variant of generate_all_framings: a framing whose generation failed is
\* left out of the result
generate_all_framings_skip_failed(base_question, fails) ==
    LET all == [t \in 1..Len(FRAMING_LEVELS) |->
                   [framing |-> FRAMING_LEVELS[t],
                    framed_prompt |-> generate_framed_prompt(
                                        base_question, FRAMING_LEVELS[t], fails)]]
    IN  SelectSeq(all, LAMBDA e : e.framed_prompt[1] # "[ERROR]")

\* generate_all_framings: results[framing] = framed_prompt for the three
\* framing levels; the dict keeps insertion order
generate_all_framings(base_question, fails) ==
    [t \in 1..Len(FRAMING_LEVELS) |->
        [framing |-> FRAMING_LEVELS[t],
         framed_prompt |-> generate_framed_prompt(
                               base_question, FRAMING_LEVELS[t], fails)]]

\* for framing_level, framed_prompt in framings.items(): append a record
FramingRecords(category, question, fails) ==
    LET framings == generate_all_framings(question, fails)
    IN  [t \in 1..Len(framings) |->
            [category      |-> category,
             base_question |-> question,
             framing_level |-> framings[t].framing,
             framed_prompt |-> framings[t].framed_prompt]]

\* for i, question in enumerate(questions): ...
RECURSIVE FramingsOfQuestions(_, _, _)
FramingsOfQuestions(category, questions, fails) ==
    IF questions = <<>> THEN <<>>
    ELSE FramingRecords(category, Head(questions), fails)
            \o FramingsOfQuestions(category, Tail(questions), fails)

\* batch_generate_framings: for category, questions in questions_dict.items()
RECURSIVE batch_generate_framings(_, _)
batch_generate_framings(qdict, fails) ==
    IF qdict = <<>> THEN <<>>
    ELSE FramingsOfQuestions(Head(qdict).category, Head(qdict).questions, fails)
            \o batch_generate_framings(Tail(qdict), fails)

\* the questions_dict arguments: the three blocks, each with 0..MaxBlockSize
\* distinct questions, a question being named by its block and rank
QuestionsDicts ==
    {[b \in 1..Len(RCBD_CATEGORIES) |->
         [category  |-> RCBD_CATEGORIES[b],
          questions |-> [i \in 1..size[b] |-> <<RCBD_CATEGORIES[b], i>>]]] :
     size \in [1..Len(RCBD_CATEGORIES) -> 0..MaxBlockSize]}

\* the API calls a batch makes: one per question and framing level
ApiCalls(qdict) ==
    UNION {{<<qdict[b].questions[i], FRAMING_LEVELS[t]>> :
               i \in 1..Len(qdict[b].questions), t \in 1..Len(FRAMING_LEVELS)} :
           b \in 1..Len(qdict)}

\* the choice "no further call fails" among the calls that may raise
NoFailure == <<>>

RcbdIdle ==
    /\ questions_dict = <<>>
    /\ api_fails = {}
    /\ experimental_data = <<>>

BatchGenerateFramings ==
    /\ questions_dict = <<>>
    /\ \E qdict \in QuestionsDicts :
       \E picks \in [1..MaxFailures -> ApiCalls(qdict) \cup {NoFailure}] :
          LET fails == {picks[i] : i \in 1..MaxFailures} \ {NoFailure}
          IN  /\ questions_dict' = qdict
              /\ api_fails' = fails
              /\ experimental_data' = batch_generate_framings(qdict, fails)
    /\ UNCHANGED otherThanRcbd

RcbdNext == BatchGenerateFramings

(***************************************************************************)
(* consistency_analyzer.py: ConsistencyAnalyzer.clean_text.  A text is a   *)
(* sequence of characters; "1" stands for the digits, "a" and "b" for the  *)
(* characters no pattern treats specially.                                 *)
(***************************************************************************)
IsSpace(c) == c \in {" ", "\n"}
IsDigit(c) == c = "1"

Minimum(S) == CHOOSE x \in S : \A y \in S : x <= y

\* text.replace('\n', ' ')
ReplaceNewlines(text) ==
    [i \in 1..Len(text) |-> IF text[i] = "\n" THEN " " ELSE text[i]]

\* "**" starts at position i
StarsAt(text, i) == i + 1 <= Len(text) /\ text[i] = "*" /\ text[i + 1] = "*"

\* re.sub(r'\*\*(.*?)\*\*', r'\1', text): the leftmost "**" that has a later
\* "**" is matched with the nearest one, both are dropped, and the scan
\* goes on after the match
RECURSIVE StripEmphasis(_)
StripEmphasis(text) ==
    LET opens == {i \in 1..Len(text) :
                    /\ StarsAt(text, i)
                    /\ \E j \in (i + 2)..Len(text) : StarsAt(text, j)}
    IN  IF opens = {} THEN text
        ELSE LET i == Minimum(opens)
                 j == Minimum({k \in (i + 2)..Len(text) : StarsAt(text, k)})
             IN  SubSeq(text, 1, i - 1) \o SubSeq(text, i + 2, j - 1)
                    \o StripEmphasis(SubSeq(text, j + 2, Len(text)))

\* first position from i on that holds no digit (Len + 1 if none): \d+
DigitRunEnd(text, i) ==
    Minimum({k \in i..(Len(text) + 1) : k = Len(text) + 1 \/ ~IsDigit(text[k])})

\* first position from i on that holds no white space (Len + 1 if none): \s*
SpaceRunEnd(text, i) ==
    Minimum({k \in i..(Len(text) + 1) : k = Len(text) + 1 \/ ~IsSpace(text[k])})

\* \d+\. matches at position i
NumberAt(text, i) ==
    /\ IsDigit(text[i])
    /\ DigitRunEnd(text, i) <= Len(text)
    /\ text[DigitRunEnd(text, i)] = "."

\* re.sub(r'\d+\.\s*', '', text)
RECURSIVE StripListNumbers(_)
StripListNumbers(text) ==
    LET starts == {i \in 1..Len(text) : NumberAt(text, i)}
    IN  IF starts = {} THEN text
        ELSE LET i == Minimum(starts)
                 e == SpaceRunEnd(text, DigitRunEnd(text, i) + 1)
             IN  SubSeq(text, 1, i - 1)
                    \o StripListNumbers(SubSeq(text, e, Len(text)))

\* re.sub(r'\s+', ' ', text)
RECURSIVE CollapseSpaces(_)
CollapseSpaces(text) ==
    IF text = <<>> THEN <<>>
    ELSE IF IsSpace(Head(text))
         THEN <<" ">> \o CollapseSpaces(
                             SubSeq(text, SpaceRunEnd(text, 1), Len(text)))
         ELSE <<Head(text)>> \o CollapseSpaces(Tail(text))

\* text.strip()
RECURSIVE Strip(_)
Strip(text) ==
    IF text = <<>> THEN <<>>
    ELSE IF IsSpace(Head(text)) THEN Strip(Tail(text))
    ELSE IF IsSpace(text[Len(text)]) THEN Strip(SubSeq(text, 1, Len(text) - 1))
    ELSE text

clean_text(text) ==
    Strip(CollapseSpaces(StripListNumbers(StripEmphasis(ReplaceNewlines(text)))))

\* the characters of the texts given to clean_text
Alphabet == {"*", "1", ".", " ", "\n", "a"}
RawTexts == UNION {[1..n -> Alphabet] : n \in 0..MaxTextLen}

CleanIdle ==
    /\ raw_text = <<>>
    /\ clean_results = <<>>

\* clean_text(raw_text)
CleanText ==
    /\ clean_results = <<>>
    /\ \E text \in RawTexts :
          /\ raw_text' = text
          /\ clean_results' = <<clean_text(text)>>
    /\ UNCHANGED otherThanClean

\* clean_text applied to the value the first call returned
CleanTextAgain ==
    /\ Len(clean_results) = 1
    /\ clean_results' = Append(clean_results, clean_text(clean_results[1]))
    /\ UNCHANGED raw_text
    /\ UNCHANGED otherThanClean

CleanNext ==
    \/ CleanText
    \/ CleanTextAgain

(***************************************************************************)
(* ConsistencyAnalyzer.compute_bert_multilingual_similarity.               *)
(* bert_score.score is a black box: for the pair of responses at positions *)
(* i and j it either returns an F1 value (in tenths) or raises.            *)
(***************************************************************************)
\* the F1 values of the model, in tenths
F1Values == {5, 10}
\* outcome of one bert_score.score call: None when it raises
Outcomes == {None} \cup {Some(v) : v \in F1Values}

\* a faulty variant of Combinations2: every ordered pair of distinct positions
OrderedPairs2(n) ==
    [k \in 1..(n * (n - 1)) |->
        LET i == ((k - 1) \div (n - 1)) + 1
            r == ((k - 1) % (n - 1)) + 1
        IN  <<i, IF r < i THEN r ELSE r + 1>>]

\* itertools.combinations(range(1, n + 1), 2): the pairs i < j in
\* lexicographic order
RECURSIVE Combinations2(_)
Combinations2(n) ==
    IF n < 2 THEN <<>>
    ELSE LET PairsFrom(i) == [d \in 1..(n - i) |-> <<i, i + d>>]
             Shift(seq) == [k \in 1..Len(seq) |-> <<seq[k][1] + 1, seq[k][2] + 1>>]
         IN  [d \in 1..(n - 1) |-> <<1, 1 + d>>] \o Shift(Combinations2(n - 1))

\* the outcome of score([resp_j], [resp_i]) for the responses at i and j
ScoreOutcome(bk, pair) ==
    LET lo == IF pair[1] < pair[2] THEN pair[1] ELSE pair[2]
        hi == IF pair[1] < pair[2] THEN pair[2] ELSE pair[1]
    IN  bk[<<lo, hi>>]

RECURSIVE SumSeq(_)
SumSeq(seq) == IF seq = <<>> THEN 0 ELSE Head(seq) + SumSeq(Tail(seq))

\* np.mean(values), kept as the fraction num / den
Mean(values) == [num |-> SumSeq(values), den |-> Len(values)]

\* the record of one bert_score.score call
ScoreCall(cleaned, pair, outcome) ==
    [i |-> pair[1], j |-> pair[2],
     cands |-> cleaned[pair[2]], refs |-> cleaned[pair[1]],
     outcome |-> outcome]

\* a faulty variant of compute_bert_multilingual_similarity: a pair whose score call
\* raises is skipped and the mean is taken over the other pairs
compute_similarity_skip_failed(responses, bk) ==
    IF Len(responses) < 2
    THEN [value |-> None, calls |-> <<>>]
    ELSE LET cleaned == [k \in 1..Len(responses) |-> clean_text(responses[k])]
             pairs   == Combinations2(Len(responses))
             calls   == [k \in 1..Len(pairs) |->
                            ScoreCall(cleaned, pairs[k], ScoreOutcome(bk, pairs[k]))]
             good    == SelectSeq(calls, LAMBDA c : c.outcome # None)
         IN  [value |-> IF good = <<>> THEN None
                        ELSE Some(Mean([k \in 1..Len(good) |-> good[k].outcome[1]])),
              calls |-> calls]

\* returns the value (None, or the mean of the F1 values) and the score
\* calls made; the first call that raises ends the loop and the except
\* branch returns None
compute_bert_multilingual_similarity(responses, bk) ==
    IF Len(responses) < 2
    THEN [value |-> None, calls |-> <<>>]
    ELSE LET cleaned == [k \in 1..Len(responses) |-> clean_text(responses[k])]
             pairs   == Combinations2(Len(responses))
             failing == {k \in 1..Len(pairs) : ScoreOutcome(bk, pairs[k]) = None}
             made    == IF failing = {} THEN Len(pairs) ELSE Minimum(failing)
             calls   == [k \in 1..made |->
                            ScoreCall(cleaned, pairs[k], ScoreOutcome(bk, pairs[k]))]
         IN  [value |-> IF failing = {}
                        THEN Some(Mean([k \in 1..made |-> calls[k].outcome[1]]))
                        ELSE None,
              calls |-> calls]

(***************************************************************************)
(* ConsistencyAnalyzer.analyze_consistency_for_experiment (2^4 factorial)  *)
(* and analyze_consistency (RCBD): the same loop over the units.           *)
(***************************************************************************)
\* a faulty variant of EnoughResponses: one response is taken to be enough
EnoughResponsesOne(responses) == Len(responses) >= 1

\* if len(responses) >= 2
EnoughResponses(responses) == Len(responses) >= 2

\* one iteration of the loop.  A unit record holds responses, backend (the
\* outcomes of the score calls on its pairs), has_score (the key
\* 'bert_multilingual_similarity' is set), score and n_calls (the score calls
\* made for it).  raises: the print of the score with {:.4f} raises TypeError
\* when the score is None.
AnalyzeUnit(data) ==
    IF EnoughResponses(data.responses)
    THEN LET r == compute_bert_multilingual_similarity(data.responses, data.backend)
         IN  [data   |-> [data EXCEPT !.has_score = TRUE, !.score = r.value,
                                      !.n_calls = Len(r.calls)],
              raises |-> r.value = None]
    ELSE [data   |-> [data EXCEPT !.has_score = TRUE, !.score = None],
          raises |-> FALSE]

\* for i, data in enumerate(experimental_data): ...; an exception leaves the
\* loop and the units after the current one are not visited: the loop from
\* the unit i on ends with the first unit whose iteration raises
AnalyzeFrom(data_list, i) ==
    LET raising == {k \in i..Len(data_list) : AnalyzeUnit(data_list[k]).raises}
        last    == IF raising = {} THEN Len(data_list) ELSE Minimum(raising)
    IN  [data   |-> [k \in 1..Len(data_list) |->
                        IF i <= k /\ k <= last
                        THEN AnalyzeUnit(data_list[k]).data
                        ELSE data_list[k]],
         raised |-> IF raising = {} THEN "" ELSE "TypeError"]

analyze_consistency_for_experiment(data_list) == AnalyzeFrom(data_list, 1)

(***************************************************************************)
(* The scorer as a state machine: each action is one call.                 *)
(***************************************************************************)
\* two raw responses: "**a**" and "1. b\n"
MarkedResponse == <<"*", "*", "a", "*", "*">>
SpacedResponse == <<"1", ".", " ", "b", "\n">>
Texts == {MarkedResponse, SpacedResponse}

\* the pairs of positions of n responses
PairSet(n) == {p \in (1..n) \X (1..n) : p[1] < p[2]}
\* the outcomes of the score calls on the pairs of n responses
Backends(n) == [PairSet(n) -> Outcomes]

\* the units handed to the analysis: a unit has up to MaxUnitResponses
\* responses, alternately the first and the second raw response
UnitResponses(n) ==
    [k \in 1..n |-> IF k % 2 = 1 THEN MarkedResponse ELSE SpacedResponse]
UnitInputs ==
    UNION {{[responses |-> UnitResponses(n), backend |-> bk,
             has_score |-> FALSE, score |-> None, n_calls |-> 0] :
               bk \in Backends(n)} : n \in 0..MaxUnitResponses}

ScoreIdle ==
    /\ scorer_op = "none"
    /\ response_list = <<>>
    /\ backend = <<>>
    /\ similarity = None
    /\ score_calls = <<>>
    /\ scored_data = <<>>
    /\ analysis_raised = ""

ComputeSimilarity ==
    /\ scorer_op = "none"
    /\ \E n \in 0..MaxResponses :
       \E responses \in [1..n -> Texts] :
       \E bk \in Backends(n) :
          LET r == compute_bert_multilingual_similarity(responses, bk)
          IN  /\ scorer_op' = "compute_bert_multilingual_similarity"
              /\ response_list' = responses
              /\ backend' = bk
              /\ similarity' = r.value
              /\ score_calls' = r.calls
    /\ UNCHANGED <<scored_data, analysis_raised>>
    /\ UNCHANGED otherThanScore

AnalyzeConsistency ==
    /\ scorer_op = "none"
    /\ \E m \in 1..MaxUnits :
       \E data_list \in [1..m -> UnitInputs] :
          LET r == analyze_consistency_for_experiment(data_list)
          IN  /\ scorer_op' = "analyze_consistency_for_experiment"
              /\ scored_data' = r.data
              /\ analysis_raised' = r.raised
    /\ UNCHANGED <<response_list, backend, similarity, score_calls>>
    /\ UNCHANGED otherThanScore

ScoreNext ==
    \/ ComputeSimilarity
    \/ AnalyzeConsistency

(***************************************************************************)
(* factorial_analyzer.py and rcbd_analyzer.py.  A score is an integer      *)
(* number of ten-thousandths; a DataFrame is the sequence of its rows,     *)
(* each row a record whose fields are the columns.                         *)
(***************************************************************************)
\* the scores of the model: 0.0, 0.3, 0.9 and 0.9001
ScoreValues == {0, 3000, 9000, 9001}

\* what a unit holds under 'bert_multilingual_similarity': no key, None or
\* a score
ScoreStates ==
    {[has_score |-> FALSE, score |-> None], [has_score |-> TRUE, score |-> None]}
        \cup {[has_score |-> TRUE, score |-> Some(v)] : v \in ScoreValues}

\* a faulty variant of NotNone: the score is tested for truth, so 0.0 fails
NotNoneTruthy(data) == data.has_score /\ data.score # None /\ data.score[1] # 0

\* data.get('bert_multilingual_similarity') is not None
NotNone(data) == data.has_score /\ data.score # None

\* the row prepare_dataframe builds from one unit of the factorial design
FactorialRow(data) ==
    DictUpdate([condition_id  |-> data.condition_id,
                category      |-> data.category,
                base_question |-> data.base_question,
                bert_multilingual_similarity |-> data.score[1],
                n_responses   |-> data.n_responses],
               data.factor_combination)

\* FactorialAnalyzer.prepare_dataframe
RECURSIVE prepare_dataframe(_)
prepare_dataframe(data_list) ==
    IF data_list = <<>> THEN <<>>
    ELSE (IF NotNone(Head(data_list)) THEN <<FactorialRow(Head(data_list))>>
          ELSE <<>>) \o prepare_dataframe(Tail(data_list))

\* the row RCBDAnalyzer.prepare_dataframe builds from one unit
RcbdRow(data) ==
    [category      |-> data.category,
     framing_level |-> data.framing_level,
     base_question |-> data.base_question,
     bert_multilingual_similarity |-> data.score[1],
     n_responses   |-> data.n_responses]

\* RCBDAnalyzer.prepare_dataframe
RECURSIVE rcbd_prepare_dataframe(_)
rcbd_prepare_dataframe(data_list) ==
    IF data_list = <<>> THEN <<>>
    ELSE (IF NotNone(Head(data_list)) THEN <<RcbdRow(Head(data_list))>>
          ELSE <<>>) \o rcbd_prepare_dataframe(Tail(data_list))

(***************************************************************************)
(* FactorialAnalyzer: main effects, block effects, two-way interactions    *)
(* and the two analyses.  ols(...).fit() and anova_lm are black boxes that *)
(* either return or raise.                                                 *)
(***************************************************************************)
\* the factors lists of the two analyses
BlockFactors == <<"prompt_language", "model", "role_assignment", "explicitness">>
AllFactors == BlockFactors \o <<"category">>

\* df.columns: a DataFrame built from an empty list has no column
Columns(df) == IF df = <<>> THEN {} ELSE DOMAIN df[1]

Maximum(S) == CHOOSE x \in S : \A y \in S : x >= y

\* the values of a column, and the rows at a level of it
LevelsOf(df, column) == {df[r][column] : r \in 1..Len(df)}
RowsAt(df, column, level) ==
    SelectSeq(df, LAMBDA row : row[column] = level)
Scores(rows) == [r \in 1..Len(rows) |-> rows[r].bert_multilingual_similarity]

\* a faulty variant of Round4: the digits after the fourth decimal are cut
Round4Down(num, den) == num \div den

\* round(4) of num / den ten-thousandths: the nearest ten-thousandth, the
\* even one when two are equally near
Round4(num, den) ==
    LET q == num \div den
        r == num % den
    IN  IF 2 * r < den THEN q
        ELSE IF 2 * r > den THEN q + 1
        ELSE IF q % 2 = 0 THEN q ELSE q + 1

\* df.groupby(column)[response_var].agg(['mean', 'std', 'count']).round(4):
\* one line per observed level; std is left out of the model
GroupMeans(df, column) ==
    [level \in LevelsOf(df, column) |->
        LET values == Scores(RowsAt(df, column, level))
        IN  [mean  |-> Round4(SumSeq(values), Len(values)),
             count |-> Len(values)]]

\* factor_means['mean'].max() - factor_means['mean'].min()
EffectSize(group_means) ==
    LET means == {group_means[level].mean : level \in DOMAIN group_means}
    IN  Maximum(means) - Minimum(means)

PresentFactors(df, factors) ==
    {factors[i] : i \in {k \in 1..Len(factors) : factors[k] \in Columns(df)}}

\* _analyze_main_effects: the value returned
analyze_main_effects(df, factors) ==
    [factor \in PresentFactors(df, factors) |-> GroupMeans(df, factor)]

\* _analyze_main_effects: the effect size printed for each factor
printed_effect_sizes(df, factors) ==
    [factor \in PresentFactors(df, factors) |->
        EffectSize(GroupMeans(df, factor))]

\* _analyze_block_effects
analyze_block_effects(df) ==
    [block_means       |-> GroupMeans(df, "category"),
     block_effect_size |-> EffectSize(GroupMeans(df, "category"))]

\* df.groupby([factor1, factor2])[response_var].mean().unstack(): a cell
\* per observed level of each factor, None (NaN) where no row has the pair
InteractionMeans(df, factor1, factor2) ==
    [cell \in LevelsOf(df, factor1) \X LevelsOf(df, factor2) |->
        LET rows == SelectSeq(df, LAMBDA row : /\ row[factor1] = cell[1]
                                               /\ row[factor2] = cell[2])
        IN  IF rows = <<>> THEN None ELSE Some(Mean(Scores(rows)))]

\* _analyze_two_way_interactions: the key f"{factor1}_x_{factor2}" is the
\* pair <<factor1, factor2>>
analyze_two_way_interactions(df, factors) ==
    LET pairs == Combinations2(Len(factors))
        present == {k \in 1..Len(pairs) :
                       /\ factors[pairs[k][1]] \in Columns(df)
                       /\ factors[pairs[k][2]] \in Columns(df)}
    IN  [key \in {<<factors[pairs[k][1]], factors[pairs[k][2]]>> : k \in present}
            |-> InteractionMeans(df, key[1], key[2])]

\* the objects statsmodels returns
OLSResults == "OLSResults"
AnovaTable == "anova_lm"
\* str(e) of the exception of a failed fit
FitError == "fit failed"

\* a faulty variant of analyze_with_category_as_block: nothing is computed
\* after a failed fit
block_analysis_without_fallback(df, raises) ==
    IF df = <<>> THEN [raised |-> "KeyError", results |-> None, printed |-> <<>>]
    ELSE IF ~raises
    THEN [raised  |-> "",
          results |-> Some([model         |-> Some(OLSResults),
                            anova_table   |-> Some(AnovaTable),
                            main_effects  |-> Some(analyze_main_effects(df, BlockFactors)),
                            block_effects |-> Some(analyze_block_effects(df)),
                            analysis_type |-> "category_as_block",
                            error         |-> None]),
          printed |-> printed_effect_sizes(df, BlockFactors)]
    ELSE [raised  |-> "",
          results |-> Some([model         |-> None,
                            anova_table   |-> None,
                            main_effects  |-> None,
                            block_effects |-> None,
                            analysis_type |-> "category_as_block",
                            error         |-> Some(FitError)]),
          printed |-> <<>>]

\* analyze_with_category_as_block.  df['category'] raises KeyError on a
\* DataFrame without columns.  In the result None stands for Python's None
\* and, in the field error, for the missing key.
analyze_with_category_as_block(df, raises) ==
    IF df = <<>> THEN [raised |-> "KeyError", results |-> None, printed |-> <<>>]
    ELSE IF ~raises
    THEN [raised  |-> "",
          results |-> Some([model         |-> Some(OLSResults),
                            anova_table   |-> Some(AnovaTable),
                            main_effects  |-> Some(analyze_main_effects(df, BlockFactors)),
                            block_effects |-> Some(analyze_block_effects(df)),
                            analysis_type |-> "category_as_block",
                            error         |-> None]),
          printed |-> printed_effect_sizes(df, BlockFactors)]
    ELSE [raised  |-> "",
          results |-> Some([model         |-> None,
                            anova_table   |-> None,
                            main_effects  |-> Some(analyze_main_effects(df, BlockFactors)),
                            block_effects |-> Some(analyze_block_effects(df)),
                            analysis_type |-> "category_as_block",
                            error         |-> Some(FitError)]),
          printed |-> printed_effect_sizes(df, BlockFactors)]

\* analyze_with_category_as_factor: after a failed fit only the main effects
\* are computed.  On a DataFrame without columns the formula names a column
\* that does not exist, so the fit raises.
analyze_with_category_as_factor(df, raises) ==
    IF ~raises /\ df # <<>>
    THEN [raised  |-> "",
          results |-> Some([model         |-> Some(OLSResults),
                            anova_table   |-> Some(AnovaTable),
                            main_effects  |-> Some(analyze_main_effects(df, AllFactors)),
                            interaction_effects |->
                                Some(analyze_two_way_interactions(df, AllFactors)),
                            analysis_type |-> "category_as_factor",
                            error         |-> None]),
          printed |-> printed_effect_sizes(df, AllFactors)]
    ELSE [raised  |-> "",
          results |-> Some([model         |-> None,
                            anova_table   |-> None,
                            main_effects  |-> Some(analyze_main_effects(df, AllFactors)),
                            interaction_effects |-> None,
                            analysis_type |-> "category_as_factor",
                            error         |-> Some(FitError)]),
          printed |-> printed_effect_sizes(df, AllFactors)]

(***************************************************************************)
(* RCBDAnalyzer.  The additive model and the model with interaction are    *)
(* fitted by two separate calls, each of which may raise.  The figures     *)
(* read from the ANOVA table (eta squared, p-values) are not modelled.     *)
(***************************************************************************)
\* df.groupby(column)[response_var].agg(['mean', 'std', 'count']): not
\* rounded; std is left out of the model
ExactGroupMeans(df, column) ==
    [level \in LevelsOf(df, column) |->
        LET values == Scores(RowsAt(df, column, level))
        IN  [mean |-> Mean(values), count |-> Len(values)]]

\* perform_rcbd_analysis: the fit is not inside a try, so its exception
\* leaves the method
perform_rcbd_analysis(df, raises) ==
    IF df = <<>> THEN [raised |-> "KeyError", results |-> None]
    ELSE IF raises THEN [raised |-> FitError, results |-> None]
    ELSE [raised  |-> "",
          results |-> Some([model          |-> Some(OLSResults),
                            anova_table    |-> Some(AnovaTable),
                            framing_means  |-> ExactGroupMeans(df, "framing_level"),
                            category_means |-> ExactGroupMeans(df, "category")])]

\* perform_full_factorial_analysis
perform_full_factorial_analysis(df, raises) ==
    IF ~raises
    THEN [model             |-> Some(OLSResults),
          anova_table       |-> Some(AnovaTable),
          interaction_means |-> InteractionMeans(df, "framing_level", "category"),
          error             |-> None]
    ELSE [model             |-> None,
          anova_table       |-> None,
          interaction_means |-> InteractionMeans(df, "framing_level", "category"),
          error             |-> Some(FitError)]

\* generate_comprehensive_report: df['framing_level'] raises KeyError on a
\* DataFrame without columns
generate_comprehensive_report(data_list, additive_raises, interaction_raises) ==
    LET df   == rcbd_prepare_dataframe(data_list)
        rcbd == perform_rcbd_analysis(df, additive_raises)
    IN  IF df = <<>> THEN [df |-> df, raised |-> "KeyError", report |-> None]
        ELSE IF rcbd.raised # "" THEN [df |-> df, raised |-> rcbd.raised, report |-> None]
        ELSE [df     |-> df,
              raised |-> "",
              report |-> Some([dataframe |-> df,
                               bert_multilingual_rcbd |-> rcbd.results[1],
                               bert_multilingual_factorial |->
                                   perform_full_factorial_analysis(
                                       df, interaction_raises)])]

(***************************************************************************)
(* The units given to the analyzers: units of the generated designs, in    *)
(* design order, each with the score the consistency analysis left on it.  *)
(***************************************************************************)
\* positions in the full factorial design of the units the model analyses:
\* the first unit, the first unit of the second block, the first unit of
\* the first combination in english, and the last unit
SamplePositions == {1, 8, 169, 336}

\* positions in the framing design below of the units the model analyses:
\* the neutral and the emotional framing of each of the two questions
RcbdSamplePositions == {1, 2, 4, 5}

\* the increasing sequences of at most MaxAnalyzed elements of S
IncreasingSeqs(S) ==
    UNION {{q \in [1..n -> S] : \A i \in 1..(n - 1) : q[i] < q[i + 1]} :
              n \in 0..MaxAnalyzed}

\* DEFAULT_EXPERIMENT_CONFIG['n_responses'] of 2kfactorial/config.py and of
\* rcbd/config.py: the number of responses collected for a unit
N_RESPONSES == 5
RCBD_N_RESPONSES == 4

ScoredUnit(condition, st) ==
    [condition_id       |-> condition.condition_id,
     category           |-> condition.category,
     base_question      |-> condition.base_question,
     factor_combination |-> condition.factor_combination,
     n_responses        |-> N_RESPONSES,
     has_score          |-> st.has_score,
     score              |-> st.score]

FactorialInputs ==
    UNION {{[i \in 1..Len(q) |->
                ScoredUnit(generate_full_factorial_design[q[i]], sts[i])] :
              sts \in [1..Len(q) -> ScoreStates]} :
           q \in IncreasingSeqs(SamplePositions)}

\* the framing design of two questions, one in each of the first two blocks
RcbdDesign ==
    batch_generate_framings(
        [b \in 1..2 |-> [category  |-> RCBD_CATEGORIES[b],
                         questions |-> <<<<RCBD_CATEGORIES[b], 1>>>>]], {})

RcbdScoredUnit(unit, st) ==
    [category      |-> unit.category,
     framing_level |-> unit.framing_level,
     base_question |-> unit.base_question,
     n_responses   |-> RCBD_N_RESPONSES,
     has_score     |-> st.has_score,
     score         |-> st.score]

RcbdInputs ==
    UNION {{[i \in 1..Len(q) |-> RcbdScoredUnit(RcbdDesign[q[i]], sts[i])] :
              sts \in [1..Len(q) -> ScoreStates]} :
           q \in IncreasingSeqs(RcbdSamplePositions)}

AnalyzerIdle ==
    /\ analyzer_op = "none"
    /\ analyzer_data = <<>>
    /\ dataframe = <<>>
    /\ fit_raises = FALSE
    /\ results = None
    /\ effect_sizes = <<>>
    /\ analyzer_raised = ""

PrepareDataframe ==
    /\ analyzer_op = "none"
    /\ \E data_list \in FactorialInputs :
          /\ analyzer_op' = "prepare_dataframe"
          /\ analyzer_data' = data_list
          /\ dataframe' = prepare_dataframe(data_list)
    /\ UNCHANGED <<fit_raises, results, effect_sizes, analyzer_raised>>
    /\ UNCHANGED otherThanAnalyzer

RcbdPrepareDataframe ==
    /\ analyzer_op = "none"
    /\ \E data_list \in RcbdInputs :
          /\ analyzer_op' = "rcbd_prepare_dataframe"
          /\ analyzer_data' = data_list
          /\ dataframe' = rcbd_prepare_dataframe(data_list)
    /\ UNCHANGED <<fit_raises, results, effect_sizes, analyzer_raised>>
    /\ UNCHANGED otherThanAnalyzer

\* the DataFrames prepare_dataframe builds
FactorialTables == {prepare_dataframe(data_list) : data_list \in FactorialInputs}

AnalyzeWithCategoryAsBlock ==
    /\ analyzer_op = "none"
    /\ \E df \in FactorialTables, raises \in BOOLEAN :
          LET r == analyze_with_category_as_block(df, raises)
          IN  /\ analyzer_op' = "analyze_with_category_as_block"
              /\ dataframe' = df
              /\ fit_raises' = raises
              /\ results' = r.results
              /\ effect_sizes' = r.printed
              /\ analyzer_raised' = r.raised
    /\ UNCHANGED analyzer_data
    /\ UNCHANGED otherThanAnalyzer

AnalyzeWithCategoryAsFactor ==
    /\ analyzer_op = "none"
    /\ \E df \in FactorialTables, raises \in BOOLEAN :
          LET r == analyze_with_category_as_factor(df, raises)
          IN  /\ analyzer_op' = "analyze_with_category_as_factor"
              /\ dataframe' = df
              /\ fit_raises' = (raises \/ df = <<>>)
              /\ results' = r.results
              /\ effect_sizes' = r.printed
              /\ analyzer_raised' = r.raised
    /\ UNCHANGED analyzer_data
    /\ UNCHANGED otherThanAnalyzer

GenerateComprehensiveReport ==
    /\ analyzer_op = "none"
    /\ \E data_list \in RcbdInputs, additive_raises, interaction_raises \in BOOLEAN :
          LET r == generate_comprehensive_report(data_list, additive_raises,
                                                 interaction_raises)
          IN  /\ analyzer_op' = "generate_comprehensive_report"
              /\ analyzer_data' = data_list
              /\ dataframe' = r.df
              /\ fit_raises' = additive_raises
              /\ results' = r.report
              /\ analyzer_raised' = r.raised
    /\ UNCHANGED effect_sizes
    /\ UNCHANGED otherThanAnalyzer

AnalyzerNext ==
    \/ PrepareDataframe
    \/ RcbdPrepareDataframe
    \/ AnalyzeWithCategoryAsBlock
    \/ AnalyzeWithCategoryAsFactor
    \/ GenerateComprehensiveReport

(***************************************************************************)
(* power_analysis.py.  A float is NaN, +inf or a non-negative fraction in  *)
(* lowest terms; the scores of this table are integer numbers of tenths.   *)
(* Cohen's d, the pooled standard deviation and the category effect are    *)
(* held as their squares, the square root of a fraction not being one.     *)
(***************************************************************************)
Abs(x) == IF x < 0 THEN -x ELSE x

RECURSIVE GCD(_, _)
GCD(a, b) == IF b = 0 THEN a ELSE GCD(b, a % b)

\* the fraction n / d, d > 0, in lowest terms
Frac(n, d) ==
    LET g == GCD(Abs(n), d) IN [num |-> n \div g, den |-> d \div g]
FAdd(p, q) == Frac(p.num * q.den + q.num * p.den, p.den * q.den)
FSub(p, q) == Frac(p.num * q.den - q.num * p.den, p.den * q.den)
FMul(p, q) == Frac(p.num * q.num, p.den * q.den)
FDiv(p, q) == Frac(p.num * q.den, p.den * q.num)
FLess(p, q) == p.num * q.den < q.num * p.den
FAbs(p) == [num |-> Abs(p.num), den |-> p.den]
Whole(n) == Frac(n, 1)

NaN == [kind |-> "nan", value |-> Whole(0)]
Inf == [kind |-> "inf", value |-> Whole(0)]
Finite(q) == [kind |-> "finite", value |-> q]
IsFinite(x) == x.kind = "finite"

\* a faulty variant of FloatDiv: a division by zero gives NaN
FloatDivNaN(x, y) ==
    IF x.kind = "nan" \/ y.kind = "nan" THEN NaN
    ELSE IF x.kind = "inf" THEN (IF y.kind = "inf" THEN NaN ELSE Inf)
    ELSE IF y.kind = "inf" THEN Finite(Whole(0))
    ELSE IF y.value.num = 0 THEN NaN
    ELSE Finite(FDiv(x.value, y.value))

\* x / y for floats x, y >= 0 under numpy's default error state: a division
\* by zero warns and gives inf, or NaN for 0 / 0
FloatDiv(x, y) ==
    IF x.kind = "nan" \/ y.kind = "nan" THEN NaN
    ELSE IF x.kind = "inf" THEN (IF y.kind = "inf" THEN NaN ELSE Inf)
    ELSE IF y.kind = "inf" THEN Finite(Whole(0))
    ELSE IF y.value.num = 0
         THEN (IF x.value.num = 0 THEN NaN ELSE Inf)
    ELSE Finite(FDiv(x.value, y.value))

\* the values of a Series that are not NaN
NotNaN(values) ==
    LET kept == SelectSeq(values, LAMBDA v : v # None)
    IN  [k \in 1..Len(kept) |-> kept[k][1]]

\* Series.mean(): NaN values are skipped
SeriesMean(values) ==
    LET xs == NotNaN(values)
    IN  IF xs = <<>> THEN NaN ELSE Finite(Frac(SumSeq(xs), Len(xs)))

\* Series.var(): NaN values are skipped, ddof = 1, NaN below two values
SeriesVar(values) ==
    LET xs == NotNaN(values)
        c  == Len(xs)
        squares == SumSeq([k \in 1..c |-> xs[k] * xs[k]])
    IN  IF c < 2 THEN NaN
        ELSE Finite(Frac(c * squares - SumSeq(xs) * SumSeq(xs), c * (c - 1)))

\* abs(group1.mean() - group2.mean())
MeanDiff(group1, group2) ==
    LET m1 == SeriesMean(group1)
        m2 == SeriesMean(group2)
    IN  IF ~IsFinite(m1) \/ ~IsFinite(m2) THEN NaN
        ELSE Finite(FAbs(FSub(m1.value, m2.value)))

\* the square of pooled_std: len(group) counts every row of the group, the
\* variance only the scores that are not NaN.  A once-NaN variance makes
\* the result NaN; both variances being numbers, each group has two rows
\* or more and the divisor is positive.
PooledVariance(group1, group2) ==
    LET v1 == SeriesVar(group1)
        v2 == SeriesVar(group2)
        n1 == Len(group1)
        n2 == Len(group2)
    IN  IF ~IsFinite(v1) \/ ~IsFinite(v2) THEN NaN
        ELSE Finite(FDiv(FAdd(FMul(Whole(n1 - 1), v1.value),
                              FMul(Whole(n2 - 1), v2.value)),
                         Whole(n1 + n2 - 2)))

Square(x) == IF IsFinite(x) THEN Finite(FMul(x.value, x.value)) ELSE x

\* interpret_effect_size on the square of d: every comparison with NaN is
\* false, so NaN falls through to the last branch
interpret_effect_size(d_squared) ==
    LET Below(n, d) == IsFinite(d_squared) /\ FLess(d_squared.value, Frac(n, d))
    IN  IF Below(4, 100) THEN "very small"
        ELSE IF Below(25, 100) THEN "small"
        ELSE IF Below(64, 100) THEN "medium"
        ELSE "large"

\* the keys of a groupby, which sorts them: the observed levels of a column
\* in the order of their names (of their Korean names for the categories)
SortedLevels(column) ==
    CASE column = "prompt_language" -> <<"english", "korean">>
      [] column = "model"           -> <<"gpt-3.5-turbo", "gpt-4o-mini">>
      [] column = "role_assignment" -> <<"no_role", "with_role">>
      [] column = "explicitness"    -> <<"high", "low">>
      [] column = "category"        -> <<"logical_reasoning", "personality",
                                         "creativity">>
GroupKeys(df, column) ==
    SelectSeq(SortedLevels(column), LAMBDA level : level \in LevelsOf(df, column))

\* groups.get_group(level): the scores of the rows at the level, NaN included
GetGroup(df, column, level) == Scores(RowsAt(df, column, level))

\* the entry of effect_sizes for a factor with two observed levels
FactorEffect(df, factor) ==
    LET group_names == GroupKeys(df, factor)
        group1 == GetGroup(df, factor, group_names[1])
        group2 == GetGroup(df, factor, group_names[2])
        pooled == PooledVariance(group1, group2)
        d2     == FloatDiv(Square(MeanDiff(group1, group2)), pooled)
    IN  [cohens_d       |-> d2,
         mean_diff      |-> MeanDiff(group1, group2),
         group1_mean    |-> SeriesMean(group1),
         group2_mean    |-> SeriesMean(group2),
         pooled_std     |-> pooled,
         interpretation |-> interpret_effect_size(d2)]

\* max(values) and min(values) of Python: a later value replaces the
\* current one only if the comparison with it is true, which it never is
\* with NaN
FloatLess(x, y) == IsFinite(x) /\ IsFinite(y) /\ FLess(x.value, y.value)
RECURSIVE PyMax(_, _)
PyMax(m, rest) ==
    IF rest = <<>> THEN m
    ELSE PyMax(IF FloatLess(m, Head(rest)) THEN Head(rest) ELSE m, Tail(rest))
RECURSIVE PyMin(_, _)
PyMin(m, rest) ==
    IF rest = <<>> THEN m
    ELSE PyMin(IF FloatLess(Head(rest), m) THEN Head(rest) ELSE m, Tail(rest))

\* the entry of effect_sizes for the categories
CategoryEffect(df) ==
    LET names == GroupKeys(df, "category")
        category_means ==
            [k \in 1..Len(names) |-> SeriesMean(GetGroup(df, "category", names[k]))]
        hi == PyMax(Head(category_means), Tail(category_means))
        lo == PyMin(Head(category_means), Tail(category_means))
        range == IF IsFinite(hi) /\ IsFinite(lo)
                 THEN Finite(FAbs(FSub(hi.value, lo.value))) ELSE NaN
        effect == FloatDiv(Square(range), SeriesVar(Scores(df)))
    IN  [effect_size    |-> effect,
         interpretation |-> interpret_effect_size(effect),
         means          |-> [k \in 1..Len(names) |->
                                [name |-> names[k], mean |-> category_means[k]]]]

\* calculate_effect_sizes: df.groupby(factor) raises KeyError on a
\* DataFrame without columns
calculate_effect_sizes(df) ==
    IF df = <<>> THEN [raised |-> "KeyError", effect_sizes |-> None]
    ELSE LET two_level == {BlockFactors[i] : i \in
                              {k \in 1..Len(BlockFactors) :
                                  Len(GroupKeys(df, BlockFactors[k])) = 2}}
         IN  [raised |-> "",
              effect_sizes |->
                  Some([factor \in two_level \cup {"category"} |->
                           IF factor = "category" THEN CategoryEffect(df)
                           ELSE FactorEffect(df, factor)])]

(***************************************************************************)
(* power_analysis_for_factors.  A target power is held in percent.         *)
(***************************************************************************)
\* target_powers
TargetPowers == <<80, 90, 95>>

\* the sample size per group read from the table of lines 223-249
ApproximateN(power, d_squared) ==
    LET Below(n, d) == IsFinite(d_squared) /\ FLess(d_squared.value, Frac(n, d))
        Pick(n1, n2, n3, n4) ==
            IF Below(4, 100) THEN n1
            ELSE IF Below(25, 100) THEN n2
            ELSE IF Below(64, 100) THEN n3
            ELSE n4
    IN  Finite(Whole(CASE power = 80 -> Pick(400, 64, 26, 17)
                       [] power = 90 -> Pick(526, 85, 34, 22)
                       [] OTHER      -> Pick(651, 105, 42, 27)))

\* (z_alpha + z_beta) ** 2 for alpha = 0.05, to two decimals: the squares of
\* 1.960 + 0.842, 1.960 + 1.282 and 1.960 + 1.645
ZSquared(power) ==
    CASE power = 80 -> Frac(785, 100)
      [] power = 90 -> Frac(1051, 100)
      [] OTHER      -> Frac(1299, 100)

\* ((z_alpha + z_beta) / cohens_d) ** 2
ExactN(power, d_squared) == FloatDiv(Finite(ZSquared(power)), d_squared)

\* the try of lines 252-258: under an error state in which the division
\* by a zero cohens_d raises, the except branch keeps the tabulated value
NPerGroup(power, d_squared, raises) ==
    IF raises /\ d_squared = Finite(Whole(0))
    THEN ApproximateN(power, d_squared)
    ELSE ExactN(power, d_squared)

\* x * k for a float x and an integer k > 0
Times(x, k) == IF IsFinite(x) THEN Finite(FMul(x.value, Whole(k))) ELSE x

PowerSet == {TargetPowers[i] : i \in 1..Len(TargetPowers)}

\* sizes: the effect_sizes argument
power_analysis_for_factors(sizes, raises) ==
    [factor \in DOMAIN sizes \ {"category"} |->
        [power \in PowerSet |->
            LET n_per_group == NPerGroup(power, sizes[factor].cohens_d, raises)
                total_n == Times(n_per_group, 2)
                total_conditions == Times(total_n, 8)
            IN  [n_per_group           |-> n_per_group,
                 total_n               |-> total_n,
                 total_conditions      |-> total_conditions,
                 total_with_categories |-> Times(total_conditions, 3)]]]

(***************************************************************************)
(* current_power_analysis.                                                 *)
(***************************************************************************)
\* the default of the current_n parameter
CURRENT_N == 96

\* statsmodels' ttest_power(effect_size, nobs, alpha=0.05, two-sided): the
\* power is a function of the two arguments, which stand for it here; the
\* effect size is held as the square of cohens_d
ttest_power(effect_size, nobs) == [effect_size |-> effect_size, nobs |-> nobs]

\* n_per_group is current_n / 2 for every factor
current_power_analysis(sizes, current_n) ==
    [factor \in DOMAIN sizes \ {"category"} |->
        LET n_per_group == Finite(Frac(current_n, 2))
        IN  ttest_power(sizes[factor].cohens_d, n_per_group)]

(***************************************************************************)
(* The tables read by the power analysis: the experiment data written by   *)
(* the experiment run, one row per unit of the design, the score NaN for   *)
(* a unit that was given none.                                             *)
(***************************************************************************)
\* scores 0.3 and 0.9, and NaN
PowerScores == {None, Some(3), Some(9)}

PowerRow(condition, score) ==
    DictUpdate([condition_id  |-> condition.condition_id,
                category      |-> condition.category,
                base_question |-> condition.base_question,
                bert_multilingual_similarity |-> score],
               condition.factor_combination)

\* the rows of a design without a score
PowerRowsOf(design) == [i \in 1..Len(design) |-> PowerRow(design[i], None)]

\* the increasing sequences of at most MaxPowerRows elements of S
IncreasingRows(S) ==
    UNION {{q \in [1..n -> S] : \A i \in 1..(n - 1) : q[i] < q[i + 1]} :
              n \in 0..MaxPowerRows}

\* positions of the full design the sampled tables draw their units from
PowerPositions == SamplePositions \cup {2}

\* tables of a few units of the full design, each with any score
SampledTables ==
    UNION {{[i \in 1..Len(q) |->
                PowerRow(generate_full_factorial_design[q[i]], scores[i])] :
              scores \in [1..Len(q) -> PowerScores]} :
           q \in IncreasingRows(PowerPositions)}

\* the design of the demo mode: config.py's factors_to_test and
\* questions_per_category of 'demo'
DemoDesign == generate_subset_design({"prompt_language", "model"}, Some(1))

\* the whole table of a design, every unit scored, the score of a unit
\* depending on its prompt language and its model
DesignTables(design) ==
    {[i \in 1..Len(design) |->
         PowerRow(design[i],
                  Some(pattern[design[i].factor_combination.prompt_language,
                               design[i].factor_combination.model]))] :
       pattern \in [LevelsOf(PowerRowsOf(design), "prompt_language")
                        \X LevelsOf(PowerRowsOf(design), "model") -> {3, 9}]}

PowerTables ==
    SampledTables \cup DesignTables(DemoDesign)
                  \cup DesignTables(generate_representative_design)

PowerIdle ==
    /\ power_op = "none"
    /\ power_table = <<>>
    /\ cohen_effect_sizes = None
    /\ formula_raises = FALSE
    /\ power_results = None
    /\ current_powers = None
    /\ power_raised = ""

CalculateEffectSizes ==
    /\ power_op = "none"
    /\ \E df \in PowerTables :
          LET r == calculate_effect_sizes(df)
          IN  /\ power_op' = "calculate_effect_sizes"
              /\ power_table' = df
              /\ cohen_effect_sizes' = r.effect_sizes
              /\ power_raised' = r.raised
    /\ UNCHANGED <<formula_raises, power_results, current_powers>>
    /\ UNCHANGED otherThanPower

\* main: the effect sizes calculate_effect_sizes returned are handed to
\* power_analysis_for_factors
PowerAnalysisForFactors ==
    /\ power_op = "calculate_effect_sizes"
    /\ cohen_effect_sizes # None
    /\ \E raises \in BOOLEAN :
          /\ power_op' = "power_analysis_for_factors"
          /\ formula_raises' = raises
          /\ power_results' =
                 Some(power_analysis_for_factors(cohen_effect_sizes[1], raises))
    /\ UNCHANGED <<power_table, cohen_effect_sizes, current_powers, power_raised>>
    /\ UNCHANGED otherThanPower

\* main: after the power analysis (and the cost analysis, which only prints
\* and multiplies), current_power_analysis is called on the same effect
\* sizes with its default current_n
CurrentPowerAnalysis ==
    /\ power_op = "power_analysis_for_factors"
    /\ power_op' = "current_power_analysis"
    /\ current_powers' =
           Some(current_power_analysis(cohen_effect_sizes[1], CURRENT_N))
    /\ UNCHANGED <<power_table, cohen_effect_sizes, formula_raises,
                   power_results, power_raised>>
    /\ UNCHANGED otherThanPower

PowerNext ==
    \/ CalculateEffectSizes
    \/ PowerAnalysisForFactors
    \/ CurrentPowerAnalysis

(***************************************************************************)
(* The 2^4 runner: config.py, response_collector.py, main_experiment.py    *)
(* and run_experiment.py.  A run is run_factorial_experiment up to the     *)
(* start of run_experiment, then one step per stage of run_experiment.     *)
(***************************************************************************)
\* DEFAULT_EXPERIMENT_CONFIG['retry_attempts']
RETRY_ATTEMPTS == 3
\* the default of the n_responses parameter of estimate_experiment_cost
ESTIMATE_N_RESPONSES == 3

Modes == {"demo", "test", "representative", "full"}

EXPERIMENT_MODES ==
    [mode \in Modes |->
        CASE mode = "demo" ->
                 [max_conditions         |-> 12,
                  factors_to_test        |-> {"prompt_language", "model"},
                  questions_per_category |-> Some(1)]
          [] mode = "test" ->
                 [max_conditions         |-> 36,
                  factors_to_test        |-> {"prompt_language", "model",
                                              "role_assignment"},
                  questions_per_category |-> Some(1)]
          [] mode = "representative" ->
                 [max_conditions         |-> 48,
                  factors_to_test        |-> {"all"},
                  questions_per_category |-> Some(1)]
          [] mode = "full" ->
                 [max_conditions         |-> 336,
                  factors_to_test        |-> {"all"},
                  questions_per_category |-> Some("all")]]

\* get_experiment_config: the defaults merged with the mode's settings
get_experiment_config(mode) ==
    [n_responses            |-> N_RESPONSES,
     retry_attempts         |-> RETRY_ATTEMPTS,
     max_conditions         |-> EXPERIMENT_MODES[mode].max_conditions,
     factors_to_test        |-> EXPERIMENT_MODES[mode].factors_to_test,
     questions_per_category |-> EXPERIMENT_MODES[mode].questions_per_category,
     mode                   |-> mode]

estimate_experiment_cost(mode, n_responses) ==
    LET config == get_experiment_config(mode)
    IN  [mode             |-> mode,
         total_conditions |-> config.max_conditions,
         total_requests   |-> config.max_conditions * n_responses]

\* str.lower() on the answers the model gives
Lower(answer) ==
    CASE answer = "Y" -> "y"
      [] answer = "N" -> "n"
      [] OTHER        -> answer

\* a faulty variant of MayStart: the API key is not looked at
MayStartWithoutKey(api_key, mode, answer) ==
    mode = "demo" \/ Lower(answer) = "y"

\* run_factorial_experiment, lines 25-42: the run goes on when the key is
\* neither None nor empty and, outside the demo mode, the answer is 'y'
MayStart(api_key, mode, answer) ==
    /\ api_key # None
    /\ api_key[1] # ""
    /\ (mode = "demo" \/ Lower(answer) = "y")

\* a unit of the run: the condition of the design with the keys the stages
\* add to it.  has_responses and has_score tell whether 'responses' and
\* 'bert_multilingual_similarity' are set; calls holds the outcome of the
\* API call of each response and attempts the number of API calls made for
\* it; backend and n_calls are those of the scorer.
RunUnit(condition) ==
    [condition_id     |-> condition.condition_id,
     category         |-> condition.category,
     base_question    |-> condition.base_question,
     factor_combination |-> condition.factor_combination,
     generated_prompt |-> None,
     has_responses    |-> FALSE,
     responses        |-> <<>>,
     n_responses      |-> 0,
     calls            |-> <<>>,
     attempts         |-> <<>>,
     has_score        |-> FALSE,
     score            |-> None,
     backend          |-> <<>>,
     n_calls          |-> 0]

\* the design run_experiment generates in a mode (lines 66-74)
ModeDesign(mode) ==
    CASE mode = "full"           -> generate_full_factorial_design
      [] mode = "representative" -> generate_representative_design
      [] OTHER -> generate_subset_design(
                      get_experiment_config(mode).factors_to_test,
                      get_experiment_config(mode).questions_per_category)

\* generate_prompt: the prompt of a condition, whether the API wrote it or
\* the fallback of the except branch did
generate_prompt(condition) ==
    Some([prompt_language |-> condition.factor_combination.prompt_language,
          base_question   |-> condition.base_question])

\* generate_full_prompts, generate_representative_prompts and
\* generate_subset_prompts: the loop over the conditions, left by an
\* interrupt at the unit `at` (0: none)
generate_prompts(mode, at) ==
    LET design == ModeDesign(mode)
    IN  [i \in 1..Len(design) |->
            IF at = 0 \/ i < at
            THEN [RunUnit(design[i]) EXCEPT
                     !.generated_prompt = generate_prompt(design[i])]
            ELSE RunUnit(design[i])]

\* experimental_data[:config['max_conditions']] (lines 77-78)
LimitConditions(data, max_conditions) ==
    IF Len(data) > max_conditions THEN SliceTo(data, max_conditions) ELSE data

\* f"[ERROR: {e}]", held as a text of one symbol
ErrorText == <<"[ERROR: e]">>

\* the content the model returns for the k-th response of a unit: "a " and
\* "b" in turn
ResponseContent(k) == IF k % 2 = 1 THEN <<"a", " ">> ELSE <<"b">>

\* collect_single_response: the stripped content, or the text of the
\* except branch when the API call raises; the call is made once
collect_single_response(content, outcome) ==
    IF outcome = "ok" THEN Strip(content) ELSE ErrorText

\* collect_multiple_responses: one entry per call
collect_multiple_responses(n_responses, outcomes) ==
    [k \in 1..n_responses |->
        collect_single_response(ResponseContent(k), outcomes[k])]

collect_responses_for_condition(condition, n_responses, outcomes) ==
    LET responses == collect_multiple_responses(n_responses, outcomes)
    IN  [condition EXCEPT !.has_responses = TRUE,
                          !.responses = responses,
                          !.n_responses = Len(responses),
                          !.calls = outcomes,
                          !.attempts = [k \in 1..n_responses |-> 1]]

\* the outcomes of the API calls of the unit i, failed being the calls
\* that raise
CallOutcomes(i, n_responses, failed) ==
    [k \in 1..n_responses |-> IF <<i, k>> \in failed THEN "raised" ELSE "ok"]

\* a faulty variant of collect_responses_for_experiment: the second unit is
\* not visited
collect_responses_skip_second(data, n_responses, failed, at) ==
    [i \in 1..Len(data) |->
        IF (at = 0 \/ i < at) /\ i # 2
        THEN collect_responses_for_condition(
                 data[i], n_responses, CallOutcomes(i, n_responses, failed))
        ELSE data[i]]

\* collect_responses_for_experiment: the loop over the units, left by an
\* interrupt at the unit `at` (0: none)
collect_responses_for_experiment(data, n_responses, failed, at) ==
    [i \in 1..Len(data) |->
        IF at = 0 \/ i < at
        THEN collect_responses_for_condition(
                 data[i], n_responses, CallOutcomes(i, n_responses, failed))
        ELSE data[i]]

\* the scorer backend of a unit: every score call gives 1.0, or every one
\* raises
UnitBackend(unit, fails) ==
    [pair \in PairSet(Len(unit.responses)) |->
        IF fails THEN None ELSE Some(10)]

\* a file of the output directory: the stage and the mode make its name,
\* by tells which run wrote its content
OutputFile(stage, mode, by) == [stage |-> stage, mode |-> mode, by |-> by]

\* _save_intermediate_data: open(filepath, 'w') replaces a file of the same
\* name and creates it otherwise
save_intermediate_data(written, stage, mode) ==
    Append(SelectSeq(written, LAMBDA f : ~(f.stage = stage /\ f.mode = mode)),
           OutputFile(stage, mode, "this"))

\* a faulty variant of AfterStage: the file is written whether or not the
\* stage raised
AfterStageAlways(written, save_intermediate, stage, mode, stage_raised) ==
    IF save_intermediate
    THEN save_intermediate_data(written, stage, mode)
    ELSE written

\* the statement after a stage of run_experiment, reached when the stage
\* did not raise: if save_intermediate: self._save_intermediate_data(...)
AfterStage(written, save_intermediate, stage, mode, stage_raised) ==
    IF stage_raised = "" /\ save_intermediate
    THEN save_intermediate_data(written, stage, mode)
    ELSE written

\* _save_final_results: the experiment data, the analysis data and the
\* summary; their names carry the time of the run
FinalFiles(mode, by) ==
    << OutputFile("experiment_data", mode, by),
       OutputFile("analysis_data", mode, by),
       OutputFile("experiment_summary", mode, by) >>

\* the output directory 'factorial_results' as a run finds it: empty, or
\* holding the files an earlier complete run of the same mode wrote
OutputDirs(mode) ==
    { <<>>,
      << OutputFile("01", mode, "earlier"),
         OutputFile("02", mode, "earlier"),
         OutputFile("03", mode, "earlier") >> \o FinalFiles(mode, "earlier") }

\* the inputs of a run
ApiKeys == {None, Some(""), Some("sk-key")}
Answers == {"y", "Y", "n", ""}
\* the units at which a stage may be interrupted (0: it is not)
InterruptAt == {0, 1, 2}
\* the API calls of the response collection that may raise: the first
\* call of the first unit and the last call of the second
CallSample == {<<1, 1>>, <<2, 5>>}
\* the sets of calls that raise in a run: none, or those
FailedCalls == {{}, CallSample}

RunIdle ==
    /\ run_pc = "idle"
    /\ run_args = None
    /\ announced = None
    /\ run_units = <<>>
    /\ run_started = <<>>
    /\ files = <<>>
    /\ run_result = None
    /\ run_raised = ""

\* run_factorial_experiment up to the call of run_experiment
RunFactorialExperiment ==
    /\ run_pc = "idle"
    /\ \E mode \in Modes, save_intermediate \in BOOLEAN,
          api_key \in ApiKeys, answer \in Answers :
          /\ files' \in OutputDirs(mode)
          /\ run_args' = Some([mode |-> mode,
                               save_intermediate |-> save_intermediate,
                               api_key |-> api_key, answer |-> answer])
          /\ announced' =
                 IF api_key # None /\ api_key[1] # ""
                 THEN Some(estimate_experiment_cost(mode, ESTIMATE_N_RESPONSES))
                 ELSE None
          /\ run_pc' = IF MayStart(api_key, mode, answer)
                       THEN "prompts" ELSE "returned"
    /\ UNCHANGED <<run_units, run_started, run_result, run_raised>>
    /\ UNCHANGED otherThanRun

\* stage 1 of run_experiment (lines 62-83)
GeneratePrompts ==
    /\ run_pc = "prompts"
    /\ \E at \in InterruptAt :
          LET mode   == run_args[1].mode
              config == get_experiment_config(mode)
              interrupt == IF at = 0 THEN "" ELSE "KeyboardInterrupt"
          IN  /\ run_started' = Append(run_started, 1)
              /\ run_units' =
                     IF at = 0
                     THEN LimitConditions(generate_prompts(mode, at),
                                          config.max_conditions)
                     ELSE generate_prompts(mode, at)
              /\ files' = AfterStage(files, run_args[1].save_intermediate,
                                     "01", mode, interrupt)
              /\ run_raised' = interrupt
              /\ run_pc' = IF interrupt = "" THEN "responses" ELSE "raised"
    /\ UNCHANGED <<run_args, announced, run_result>>
    /\ UNCHANGED otherThanRun

\* stage 2 of run_experiment (lines 85-96)
CollectResponses ==
    /\ run_pc = "responses"
    /\ \E at \in InterruptAt, failed \in FailedCalls :
          LET mode   == run_args[1].mode
              config == get_experiment_config(mode)
              interrupt == IF at = 0 THEN "" ELSE "KeyboardInterrupt"
          IN  /\ run_started' = Append(run_started, 2)
              /\ run_units' = collect_responses_for_experiment(
                                  run_units, config.n_responses, failed, at)
              /\ files' = AfterStage(files, run_args[1].save_intermediate,
                                     "02", mode, interrupt)
              /\ run_raised' = interrupt
              /\ run_pc' = IF interrupt = "" THEN "consistency" ELSE "raised"
    /\ UNCHANGED <<run_args, announced, run_result>>
    /\ UNCHANGED otherThanRun

\* stage 3 of run_experiment (lines 98-105), the score calls of the unit
\* `failing` raising (0: of none); an exception is caught by
\* run_factorial_experiment, which returns None (lines 70-74)
AnalyzeConsistencyStage ==
    /\ run_pc = "consistency"
    /\ \E failing \in {0, 2} :
          LET mode == run_args[1].mode
              data == [i \in 1..Len(run_units) |->
                          [run_units[i] EXCEPT
                              !.backend = UnitBackend(run_units[i], i = failing)]]
              r    == analyze_consistency_for_experiment(data)
          IN  /\ run_started' = Append(run_started, 3)
              /\ run_units' = r.data
              /\ files' = AfterStage(files, run_args[1].save_intermediate,
                                     "03", mode, r.raised)
              /\ run_raised' = r.raised
              /\ run_pc' = IF r.raised = "" THEN "statistics" ELSE "returned"
    /\ UNCHANGED <<run_args, announced, run_result>>
    /\ UNCHANGED otherThanRun

\* stages 4 and 5 of run_experiment (lines 107-132) and the return of
\* run_factorial_experiment
AnalyzeAndSaveResults ==
    /\ run_pc = "statistics"
    /\ \E interrupted \in BOOLEAN :
          /\ run_started' = IF interrupted THEN Append(run_started, 4)
                            ELSE run_started \o <<4, 5>>
          /\ files' = IF interrupted THEN files
                      ELSE files \o FinalFiles(run_args[1].mode, "this")
          /\ run_raised' = IF interrupted THEN "KeyboardInterrupt" ELSE ""
          /\ run_result' = IF interrupted THEN None
                           ELSE Some([experimental_data |-> run_units,
                                      config |-> get_experiment_config(
                                                     run_args[1].mode)])
          /\ run_pc' = IF interrupted THEN "raised" ELSE "returned"
    /\ UNCHANGED <<run_args, announced, run_units>>
    /\ UNCHANGED otherThanRun

RunNext ==
    \/ RunFactorialExperiment
    \/ GeneratePrompts
    \/ CollectResponses
    \/ AnalyzeConsistencyStage
    \/ AnalyzeAndSaveResults

(***************************************************************************)
(* Specifications: one per component, all from the same initial state.     *)
(***************************************************************************)
Init ==
    /\ DesignInit
    /\ RcbdIdle
    /\ ScoreIdle
    /\ CleanIdle
    /\ AnalyzerIdle
    /\ PowerIdle
    /\ RunIdle

SpecDesign == Init /\ [][DesignNext]_vars

SpecRCBD == Init /\ [][RcbdNext]_vars

SpecScore == Init /\ [][ScoreNext]_vars

SpecClean == Init /\ [][CleanNext]_vars

SpecAnalyzer == Init /\ [][AnalyzerNext]_vars

SpecPower == Init /\ [][PowerNext]_vars

SpecRun == Init /\ [][RunNext]_vars

(***************************************************************************)
(* Vocabulary of the design claims.                                        *)
(***************************************************************************)
FactorNames == {FACTORS[i].name : i \in 1..Len(FACTORS)}
FactorIndex(name) == CHOOSE i \in 1..Len(FACTORS) : FACTORS[i].name = name
LevelSet(name) ==
    {FACTORS[FactorIndex(name)].levels[j] :
        j \in 1..Len(FACTORS[FactorIndex(name)].levels)}
AllLevels == UNION {LevelSet(n) : n \in FactorNames}

\* rank of a level in its factor's declaration
LevelRank(i, level) ==
    CHOOSE j \in 1..Len(FACTORS[i].levels) : FACTORS[i].levels[j] = level

\* l1 * l2 * ... * lk
RECURSIVE LevelCountProduct(_)
LevelCountProduct(factors) ==
    IF factors = <<>> THEN 1
    ELSE Len(Head(factors).levels) * LevelCountProduct(Tail(factors))

\* a combination assigns each declared factor exactly one of its levels
ValidCombination(c) ==
    /\ DOMAIN c = FactorNames
    /\ \A n \in FactorNames : c[n] \in LevelSet(n)

\* c1 comes before c2 in lexicographic order, first declared factor most
\* significant, levels compared by declaration rank
LexBefore(c1, c2) ==
    \E i \in 1..Len(FACTORS) :
        /\ \A g \in 1..(i - 1) : c1[FACTORS[g].name] = c2[FACTORS[g].name]
        /\ LevelRank(i, c1[FACTORS[i].name]) < LevelRank(i, c2[FACTORS[i].name])

\* number of questions in the blocks before block b, and in all blocks
RECURSIVE QuestionsBefore(_)
QuestionsBefore(b) ==
    IF b <= 1 THEN 0
    ELSE QuestionsBefore(b - 1) + Len(QUESTION_BLOCKS[b - 1].questions)
TotalQuestions == QuestionsBefore(Len(QUESTION_BLOCKS) + 1)

Blocks == 1..Len(QUESTION_BLOCKS)
Units == 1..Len(experimental_conditions)

\* the positions at which the triple (combination, block, question) is emitted
PositionsOf(combination, category, question) ==
    {k \in Units :
        /\ experimental_conditions[k].factor_combination = combination
        /\ experimental_conditions[k].category = category
        /\ experimental_conditions[k].base_question = question}

Min(a, b) == IF a < b THEN a ELSE b

(***************************************************************************)
(* C1: generate_all_factor_combinations returns the Cartesian product of   *)
(* the declared level sets in lexicographic order (first declared factor   *)
(* slowest, last fastest, levels in declaration order): l1*...*lk entries, *)
(* each a valid combination, strictly increasing (hence no duplicate), and *)
(* every valid combination present.                                        *)
(***************************************************************************)
C1_FullFactorialIsLexProduct ==
    call.op = "generate_all_factor_combinations" =>
        /\ Len(combinations) = LevelCountProduct(FACTORS)
        /\ \A k \in 1..Len(combinations) : ValidCombination(combinations[k])
        /\ \A i, j \in 1..Len(combinations) :
               i < j => LexBefore(combinations[i], combinations[j])
        /\ \A c \in [FactorNames -> AllLevels] :
               ValidCombination(c) =>
                   Cardinality({k \in 1..Len(combinations) :
                                   combinations[k] = c}) = 1

C1_Witness ==
    /\ call.op = "generate_all_factor_combinations"
    /\ Len(combinations) = 16
    /\ combinations[2] = [factor_defaults EXCEPT
                              !["model"] = "gpt-3.5-turbo",
                              !["role_assignment"] = "with_role",
                              !["explicitness"] = "low"]

C3_RepresentativeDesign ==
    call.op = "generate_representative_design" =>
        /\ Len(combinations) = LevelCountProduct(FACTORS)
        /\ Len(experimental_conditions) = Len(combinations) * Len(QUESTION_BLOCKS)
        /\ \A k \in Units : experimental_conditions[k].condition_id = k
        /\ \A c \in 1..Len(combinations) : \A b \in Blocks :
               /\ {k \in Units :
                      /\ experimental_conditions[k].factor_combination
                             = combinations[c]
                      /\ experimental_conditions[k].category
                             = QUESTION_BLOCKS[b].category}
                    = {(c - 1) * Len(QUESTION_BLOCKS) + b}
               /\ experimental_conditions[(c - 1) * Len(QUESTION_BLOCKS) + b]
                      .base_question = QUESTION_BLOCKS[b].questions[1]

C3_Witness ==
    /\ call.op = "generate_representative_design"
    /\ Len(experimental_conditions) = 48
    /\ experimental_conditions[48].condition_id = 48
    /\ experimental_conditions[48].base_question = "L1"

(***************************************************************************)
(* C4: in every unit of generate_subset_design each declared factor that   *)
(* is not in factors_to_test has its default level, each declared factor   *)
(* in factors_to_test takes every one of its levels, the tested factors    *)
(* are fully crossed (every assignment of their levels meets every         *)
(* selected stimulus exactly once), and every combination assigns one      *)
(* declared level to each of the four declared factors.                    *)
(***************************************************************************)
\* the declared factors among factors_to_test
Varied == call.factors_to_test \cap FactorNames
\* the stimuli the design uses
SelectedStimuli ==
    {<<experimental_conditions[k].category,
       experimental_conditions[k].base_question>> : k \in Units}

C4_SubsetDesignCrossing ==
    call.op = "generate_subset_design" =>
        /\ Units # {}
        /\ \A k \in Units :
               LET fc == experimental_conditions[k].factor_combination
               IN  /\ ValidCombination(fc)
                   /\ \A n \in FactorNames \ Varied : fc[n] = factor_defaults[n]
        /\ \A n \in Varied : \A level \in LevelSet(n) :
               \E k \in Units :
                   experimental_conditions[k].factor_combination[n] = level
        /\ \A a \in [Varied -> AllLevels] :
               (\A n \in Varied : a[n] \in LevelSet(n)) =>
                   \A st \in SelectedStimuli :
                       Cardinality(
                           {k \in Units :
                               /\ \A n \in Varied :
                                      experimental_conditions[k]
                                          .factor_combination[n] = a[n]
                               /\ experimental_conditions[k].category = st[1]
                               /\ experimental_conditions[k].base_question = st[2]})
                         = 1

C4_Witness ==
    /\ call.op = "generate_subset_design"
    /\ call.factors_to_test = {"prompt_language", "model"}
    /\ call.questions_per_category = Some(1)
    /\ Len(experimental_conditions) = 12
    /\ experimental_conditions[12].factor_combination =
           [factor_defaults EXCEPT !["prompt_language"] = "english"]

(***************************************************************************)
(* C5: generate_subset_design fails with a configuration error and emits   *)
(* no unit whenever factors_to_test names an undeclared factor.            *)
(***************************************************************************)
C5_UndeclaredFactorRejected ==
    (/\ call.op = "generate_subset_design"
     /\ ~(call.factors_to_test \subseteq FactorNames))
        => /\ raised = "ConfigurationError"
           /\ experimental_conditions = <<>>

(***************************************************************************)
(* C6: for every limit N >= 0 given to generate_subset_design, each block  *)
(* contributes to every combination exactly its first min(N, block size)   *)
(* stimuli in declared order (none for N = 0).                             *)
(***************************************************************************)
\* the questions of block b emitted for the combination fc, in emission order
BlockContribution(fc, b) ==
    LET us == SelectSeq(experimental_conditions,
                        LAMBDA u : /\ u.factor_combination = fc
                                   /\ u.category = QUESTION_BLOCKS[b].category)
    IN  [i \in 1..Len(us) |-> us[i].base_question]

RECURSIVE LimitedTotal(_, _)
LimitedTotal(b, n) ==
    IF b = 0 THEN 0
    ELSE LimitedTotal(b - 1, n) + Min(n, Len(QUESTION_BLOCKS[b].questions))

C6_LimitTakesFirstN ==
    (/\ call.op = "generate_subset_design"
     /\ call.questions_per_category # None)
        => LET n == call.questions_per_category[1]
           IN  /\ Len(experimental_conditions) =
                      LevelCountProduct(test_factors(call.factors_to_test))
                          * LimitedTotal(Len(QUESTION_BLOCKS), n)
               /\ \A k \in Units : \A b \in Blocks :
                      BlockContribution(
                          experimental_conditions[k].factor_combination, b)
                        = SubSeq(QUESTION_BLOCKS[b].questions, 1,
                                 Min(n, Len(QUESTION_BLOCKS[b].questions)))

(***************************************************************************)
(* C7: batch_generate_framings emits exactly one unit per (block, stimulus *)
(* of the block, framing level) triple, 3 x (number of stimuli) units,     *)
(* ordered by block, then stimulus, then framing level (neutral,           *)
(* emotional, provocative); none is missing or duplicated, also when       *)
(* prompt generation fails for a framing level.                            *)
(***************************************************************************)
RECURSIVE DictQuestionsBefore(_)
DictQuestionsBefore(b) ==
    IF b <= 1 THEN 0
    ELSE DictQuestionsBefore(b - 1) + Len(questions_dict[b - 1].questions)

C7_RcbdOneUnitPerTriple ==
    questions_dict # <<>> =>
        /\ Len(experimental_data) =
               Len(FRAMING_LEVELS) * DictQuestionsBefore(Len(questions_dict) + 1)
        /\ \A b \in 1..Len(questions_dict) :
           \A i \in 1..Len(questions_dict[b].questions) :
           \A t \in 1..Len(FRAMING_LEVELS) :
               {k \in 1..Len(experimental_data) :
                   /\ experimental_data[k].category = questions_dict[b].category
                   /\ experimental_data[k].base_question
                          = questions_dict[b].questions[i]
                   /\ experimental_data[k].framing_level = FRAMING_LEVELS[t]}
                 = {Len(FRAMING_LEVELS) * (DictQuestionsBefore(b) + i - 1) + t}

\* a batch of 3 stimuli in which the emotional framing of the second one failed
C7_Witness ==
    /\ questions_dict # <<>>
    /\ Len(experimental_data) = 9
    /\ \E k \in 1..Len(experimental_data) :
           /\ <<experimental_data[k].base_question,
                experimental_data[k].framing_level>> \in api_fails
           /\ experimental_data[k].framed_prompt[1] = "[ERROR]"
           /\ k = 5

(***************************************************************************)
(* Vocabulary of the scorer claims.                                        *)
(***************************************************************************)
\* the normalized form of the raw responses: "a" and "b"
NormalForm(text) == IF text = MarkedResponse THEN <<"a">> ELSE <<"b">>

\* n * (n - 1) / 2
Choose2(n) == (n * (n - 1)) \div 2

\* some score call on the responses raises
BackendFails(bk) == \E p \in DOMAIN bk : bk[p] = None

ScoredUnits == 1..Len(scored_data)
Short(k) == Len(scored_data[k].responses) < 2
\* no score call of a unit before unit k raises
NoFailureBefore(k) ==
    \A j \in 1..(k - 1) : Short(j) \/ ~BackendFails(scored_data[j].backend)

(***************************************************************************)
(* C8: a unit with zero or one response gets the score None and no score   *)
(* call is made for it, both in compute_bert_multilingual_similarity and   *)
(* in the analysis loop; the loop handles such a unit whenever no earlier  *)
(* score call raised, and after handling it goes on to the next unit (or   *)
(* returns normally when it is the last one).                              *)
(***************************************************************************)
C8_ShortUnitScoresNone ==
    /\ (scorer_op = "compute_bert_multilingual_similarity"
            /\ Len(response_list) < 2)
           => similarity = None /\ score_calls = <<>>
    /\ scorer_op = "analyze_consistency_for_experiment" =>
           \A k \in ScoredUnits :
               Short(k) =>
                   /\ scored_data[k].score = None
                   /\ scored_data[k].n_calls = 0
                   /\ NoFailureBefore(k) => scored_data[k].has_score
                   /\ scored_data[k].has_score =>
                          IF k < Len(scored_data)
                          THEN scored_data[k + 1].has_score
                          ELSE analysis_raised = ""

\* a unit with one response is given None and the unit after it is scored
C8_Witness ==
    /\ scorer_op = "analyze_consistency_for_experiment"
    /\ Len(scored_data) = 2
    /\ Len(scored_data[1].responses) = 1
    /\ scored_data[1].has_score /\ scored_data[1].score = None
    /\ scored_data[1].n_calls = 0
    /\ scored_data[2].has_score
    /\ scored_data[2].score = Some([num |-> 5, den |-> 1])

(***************************************************************************)
(* C9: for n >= 2 responses compute_bert_multilingual_similarity calls the *)
(* backend on unordered pairs of distinct positions only, each at most     *)
(* once and never in both orders, on the normalized texts; when no call    *)
(* raises it makes exactly C(n,2) calls, one per pair, and returns the     *)
(* arithmetic mean of exactly those C(n,2) values.                         *)
(***************************************************************************)
C9_MeanOverUnorderedPairs ==
    (scorer_op = "compute_bert_multilingual_similarity"
        /\ Len(response_list) >= 2) =>
        /\ \A k \in 1..Len(score_calls) :
               /\ score_calls[k].i \in 1..Len(response_list)
               /\ score_calls[k].j \in 1..Len(response_list)
               /\ score_calls[k].i # score_calls[k].j
               /\ score_calls[k].refs = NormalForm(response_list[score_calls[k].i])
               /\ score_calls[k].cands = NormalForm(response_list[score_calls[k].j])
               /\ score_calls[k].outcome
                      = ScoreOutcome(backend, <<score_calls[k].i, score_calls[k].j>>)
        /\ \A k, l \in 1..Len(score_calls) :
               k # l => {score_calls[k].i, score_calls[k].j}
                            # {score_calls[l].i, score_calls[l].j}
        /\ ~BackendFails(backend) =>
               /\ Len(score_calls) = Choose2(Len(response_list))
               /\ \A p \in PairSet(Len(response_list)) :
                      \E k \in 1..Len(score_calls) :
                          {score_calls[k].i, score_calls[k].j} = {p[1], p[2]}
               /\ similarity # None
               /\ similarity[1].den = Choose2(Len(response_list))
               /\ similarity[1].num =
                      SumSeq([k \in 1..Len(score_calls) |->
                                 score_calls[k].outcome[1]])

\* three responses, three calls, mean (10 + 5 + 10) / 3
C9_Witness ==
    /\ scorer_op = "compute_bert_multilingual_similarity"
    /\ Len(response_list) = 3
    /\ response_list[1] # response_list[2]
    /\ Len(score_calls) = 3
    /\ backend[<<1, 3>>] = Some(5)
    /\ similarity = Some([num |-> 25, den |-> 3])

(***************************************************************************)
(* C10: for n >= 2 responses compute_bert_multilingual_similarity returns  *)
(* None whenever the backend raises on any one pair, whichever pair it is  *)
(* and however many pairs succeeded before it.                             *)
(***************************************************************************)
C10_BackendFailureGivesNone ==
    (scorer_op = "compute_bert_multilingual_similarity"
        /\ Len(response_list) >= 2
        /\ BackendFails(backend)) => similarity = None

\* the third of three pairs raises after two pairs succeeded
C10_Witness ==
    /\ scorer_op = "compute_bert_multilingual_similarity"
    /\ Len(response_list) = 3
    /\ backend[<<1, 2>>] # None /\ backend[<<1, 3>>] # None
    /\ backend[<<2, 3>>] = None
    /\ Len(score_calls) = 3
    /\ similarity = None

\* unit k has at least two responses and one of its score calls raises
FailedUnit(k) == ~Short(k) /\ BackendFails(scored_data[k].backend)

\* what the analysis loop adds to a unit's record: the value stored under
\* the key 'bert_multilingual_similarity' (None while the key is not set)
AnalysisOutput(data) ==
    [bert_multilingual_similarity |->
        IF data.has_score THEN Some(data.score) ELSE None]

(***************************************************************************)
(* C11: when the backend fails for one unit that has at least two          *)
(* responses, the analysis loop gives that unit the score None, goes on    *)
(* through the last unit and returns normally, and every other unit ends   *)
(* with the score computed from its own responses alone.                   *)
(***************************************************************************)
C11_FailureDoesNotStopLoop ==
    scorer_op = "analyze_consistency_for_experiment" =>
        \A k \in ScoredUnits :
            (FailedUnit(k) /\ \A j \in ScoredUnits \ {k} : ~FailedUnit(j)) =>
                /\ scored_data[k].has_score
                /\ scored_data[k].score = None
                /\ analysis_raised = ""
                /\ \A j \in ScoredUnits \ {k} :
                       /\ scored_data[j].has_score
                       /\ scored_data[j].score =
                              compute_bert_multilingual_similarity(
                                  scored_data[j].responses,
                                  scored_data[j].backend).value

(***************************************************************************)
(* C12: a unit whose backend call failed ends with a record that differs   *)
(* from the record of a unit with fewer than two responses: the reason of  *)
(* the failure is stored next to the score None.                           *)
(***************************************************************************)
C12_FailureReasonRecorded ==
    scorer_op = "analyze_consistency_for_experiment" =>
        \A k, j \in ScoredUnits :
            (FailedUnit(k) /\ scored_data[k].has_score
                /\ Short(j) /\ scored_data[j].has_score) =>
                AnalysisOutput(scored_data[k]) # AnalysisOutput(scored_data[j])

(***************************************************************************)
(* C13: clean_text is idempotent: applied to its own result it returns     *)
(* that result unchanged, for every text over emphasis markers, digits,    *)
(* dots, white space and letters.                                          *)
(***************************************************************************)
C13_CleanTextIdempotent ==
    Len(clean_results) = 2 => clean_results[2] = clean_results[1]

(***************************************************************************)
(* Vocabulary of the analyzer claims.                                      *)
(***************************************************************************)
\* the positions of the units of analyzer_data that hold a score
ScoredPositions == SelectSeq([i \in 1..Len(analyzer_data) |-> i],
                             LAMBDA i : /\ analyzer_data[i].has_score
                                        /\ analyzer_data[i].score # None)

(***************************************************************************)
(* C14: prepare_dataframe (of both analyzers) returns exactly one row for  *)
(* each unit whose score is not None, in unit order, and none for a unit   *)
(* whose score is None or missing; the row carries the unit's level of     *)
(* every factor, its block and its score unchanged.                        *)
(***************************************************************************)
C14_OneRowPerScoredUnit ==
    /\ analyzer_op \in {"prepare_dataframe", "rcbd_prepare_dataframe"} =>
           /\ Len(dataframe) = Len(ScoredPositions)
           /\ \A r \in 1..Len(dataframe) :
                  LET data == analyzer_data[ScoredPositions[r]]
                  IN  /\ dataframe[r].bert_multilingual_similarity = data.score[1]
                      /\ dataframe[r].category = data.category
                      /\ dataframe[r].base_question = data.base_question
    /\ analyzer_op = "prepare_dataframe" =>
           \A r \in 1..Len(dataframe) :
               LET data == analyzer_data[ScoredPositions[r]]
               IN  /\ dataframe[r].condition_id = data.condition_id
                   /\ \A f \in FactorNames :
                          dataframe[r][f] = data.factor_combination[f]
    /\ analyzer_op = "rcbd_prepare_dataframe" =>
           \A r \in 1..Len(dataframe) :
               dataframe[r].framing_level
                   = analyzer_data[ScoredPositions[r]].framing_level

\* three units, the first scored 0.0, the second with None, the third
\* scored 0.9: two rows, in that order
C14_Witness ==
    /\ analyzer_op = "prepare_dataframe"
    /\ Len(analyzer_data) = 3
    /\ analyzer_data[1].score = Some(0)
    /\ analyzer_data[2].has_score /\ analyzer_data[2].score = None
    /\ analyzer_data[3].score = Some(9000)
    /\ Len(dataframe) = 2
    /\ dataframe[1].bert_multilingual_similarity = 0
    /\ dataframe[2].prompt_language = "english"

\* the rows of the DataFrame at a level of a column, and their scores
TableRows(column, level) == {r \in 1..Len(dataframe) : dataframe[r][column] = level}
RECURSIVE SumOver(_)
SumOver(R) ==
    IF R = {} THEN 0
    ELSE LET r == CHOOSE x \in R : TRUE
         IN  dataframe[r].bert_multilingual_similarity + SumOver(R \ {r})
ObservedLevels(column) == {dataframe[r][column] : r \in 1..Len(dataframe)}

\* a table of level means covers the observed levels of the column and
\* counts the rows of each
CountsRows(group_means, column) ==
    /\ DOMAIN group_means = ObservedLevels(column)
    /\ \A level \in DOMAIN group_means :
           group_means[level].count = Cardinality(TableRows(column, level))

AnalysisReturned ==
    /\ analyzer_op \in {"analyze_with_category_as_block",
                        "analyze_with_category_as_factor"}
    /\ results # None

(***************************************************************************)
(* C15: on every non-empty table analyze_with_category_as_block returns a  *)
(* result; when the model fit fails the result has no model and no ANOVA   *)
(* table, holds the error text, and its main-effect and block-effect       *)
(* summaries are not None and equal those of a successful fit on the same  *)
(* table: one table of level means per factor and one for the blocks.      *)
(***************************************************************************)
C15_BlockAnalysisSurvivesFitFailure ==
    (analyzer_op = "analyze_with_category_as_block" /\ dataframe # <<>>) =>
        /\ analyzer_raised = ""
        /\ results # None
        /\ fit_raises =>
               /\ results[1].model = None
               /\ results[1].anova_table = None
               /\ results[1].error # None
               /\ results[1].main_effects # None
               /\ results[1].block_effects # None
               /\ results[1].main_effects =
                      analyze_with_category_as_block(dataframe, FALSE)
                          .results[1].main_effects
               /\ results[1].block_effects =
                      analyze_with_category_as_block(dataframe, FALSE)
                          .results[1].block_effects
               /\ DOMAIN results[1].main_effects[1] = FactorNames
               /\ \A f \in FactorNames :
                      CountsRows(results[1].main_effects[1][f], f)
               /\ CountsRows(results[1].block_effects[1].block_means, "category")

\* the fit fails on a table of three rows in two blocks
C15_Witness ==
    /\ analyzer_op = "analyze_with_category_as_block"
    /\ fit_raises
    /\ Len(dataframe) = 3
    /\ results # None
    /\ results[1].model = None
    /\ results[1].error = Some(FitError)
    /\ results[1].main_effects # None
    /\ DOMAIN results[1].main_effects[1]["prompt_language"] = {"korean", "english"}
    /\ DOMAIN results[1].block_effects[1].block_means
           = {"personality", "creativity"}

(***************************************************************************)
(* C16: when fitting the additive model fails, generate_comprehensive_     *)
(* report of the RCBD analyzer still returns a report, and the report      *)
(* holds the mean score of each framing level and of each block.           *)
(***************************************************************************)
C16_RcbdReportSurvivesFitFailure ==
    (analyzer_op = "generate_comprehensive_report"
        /\ dataframe # <<>> /\ fit_raises) =>
        /\ analyzer_raised = ""
        /\ results # None
        /\ results[1].bert_multilingual_rcbd.framing_means
               = ExactGroupMeans(dataframe, "framing_level")
        /\ results[1].bert_multilingual_rcbd.category_means
               = ExactGroupMeans(dataframe, "category")

\* the main effects of the returned result and the factors they cover
MainEffects == results[1].main_effects[1]
AnalyzedFactors ==
    IF analyzer_op = "analyze_with_category_as_block"
    THEN FactorNames ELSE FactorNames \cup {"category"}

\* the counts, the effect sizes and their special cases, whatever the means
MainEffectsShape ==
    /\ DOMAIN MainEffects = AnalyzedFactors
    /\ DOMAIN effect_sizes = AnalyzedFactors
    /\ \A f \in AnalyzedFactors :
           LET means == {MainEffects[f][level].mean : level \in DOMAIN MainEffects[f]}
           IN  /\ CountsRows(MainEffects[f], f)
               /\ \E hi, lo \in means :
                      /\ \A m \in means : lo <= m /\ m <= hi
                      /\ effect_sizes[f] = hi - lo
               /\ effect_sizes[f] >= 0
               /\ Cardinality(DOMAIN MainEffects[f]) = 1 => effect_sizes[f] = 0
               /\ means = {9000, 3000} => effect_sizes[f] = 6000
               /\ Cardinality(UNION {TableRows(f, level) :
                                        level \in DOMAIN MainEffects[f]})
                      = Len(dataframe)

(***************************************************************************)
(* C17 as stated: for every factor of the table the main effects hold,     *)
(* for each observed level, the number of rows at the level and the mean   *)
(* of their scores; the effect size is the largest level mean minus the    *)
(* smallest, never negative, 0 for a single level, 0.6 for the means 0.9   *)
(* and 0.3; the counts of a factor sum to the number of rows.              *)
(***************************************************************************)
C17_MainEffectsExactMeans ==
    (AnalysisReturned /\ dataframe # <<>>) =>
        /\ MainEffectsShape
        /\ \A f \in AnalyzedFactors : \A level \in DOMAIN MainEffects[f] :
               MainEffects[f][level].mean * MainEffects[f][level].count
                   = SumOver(TableRows(f, level))

(***************************************************************************)
(* C17 as the code has it: the same, except that each level mean is the    *)
(* mean of the scores rounded to four decimals (it differs from the mean   *)
(* by at most half a ten-thousandth), and the effect size is the           *)
(* difference of the rounded means.                                        *)
(***************************************************************************)
C17_MainEffectsRoundedMeans ==
    (AnalysisReturned /\ dataframe # <<>>) =>
        /\ MainEffectsShape
        /\ \A f \in AnalyzedFactors : \A level \in DOMAIN MainEffects[f] :
               2 * Abs(MainEffects[f][level].mean * MainEffects[f][level].count
                           - SumOver(TableRows(f, level)))
                   <= MainEffects[f][level].count

\* three rows of gpt-3.5-turbo scored 0.9, 0.9 and 0.9001: their mean
\* 0.90003... is held as 0.9, and the effect size of prompt_language is the
\* difference 0.0001 of the level means
C17_Witness ==
    /\ analyzer_op = "analyze_with_category_as_block"
    /\ Len(dataframe) = 3
    /\ SumOver(TableRows("model", "gpt-3.5-turbo")) = 27001
    /\ MainEffects["model"]["gpt-3.5-turbo"] = [mean |-> 9000, count |-> 3]
    /\ effect_sizes["model"] = 0
    /\ MainEffects["prompt_language"]["korean"] = [mean |-> 9000, count |-> 2]
    /\ MainEffects["prompt_language"]["english"] = [mean |-> 9001, count |-> 1]
    /\ effect_sizes["prompt_language"] = 1

\* the unordered pairs of the four factors and the block
DimensionPairs ==
    {{AllFactors[i], AllFactors[j]} : <<i, j>> \in PairSet(Len(AllFactors))}

\* the rows of the DataFrame that have a pair of levels
CellRows(key, cell) ==
    {r \in 1..Len(dataframe) :
        dataframe[r][key[1]] = cell[1] /\ dataframe[r][key[2]] = cell[2]}

(***************************************************************************)
(* C18: every result of analyze_with_category_as_factor, whether the model *)
(* fit succeeded or failed, holds exactly one table of means for each of   *)
(* the 10 unordered pairs of the four factors and the block, and each cell *)
(* of a table is the mean score of the rows that have the pair of levels.  *)
(***************************************************************************)
C18_TenInteractionTables ==
    (analyzer_op = "analyze_with_category_as_factor"
        /\ results # None /\ dataframe # <<>>) =>
        /\ results[1].interaction_effects # None
        /\ LET tables == results[1].interaction_effects[1]
           IN  /\ Cardinality(DOMAIN tables) = 10
               /\ {{key[1], key[2]} : key \in DOMAIN tables} = DimensionPairs
               /\ \A key \in DOMAIN tables :
                      /\ DOMAIN tables[key]
                             = ObservedLevels(key[1]) \X ObservedLevels(key[2])
                      /\ \A cell \in DOMAIN tables[key] :
                             IF CellRows(key, cell) = {}
                             THEN tables[key][cell] = None
                             ELSE tables[key][cell] =
                                      Some([num |-> SumOver(CellRows(key, cell)),
                                            den |-> Cardinality(CellRows(key, cell))])

(***************************************************************************)
(* Vocabulary of the power-analysis claims.                                *)
(***************************************************************************)
\* the scores, NaN left out, of the rows of power_table at a level
ObservationsAt(factor, level) ==
    NotNaN(Scores(RowsAt(power_table, factor, level)))
TwoLevel(factor) == Cardinality(LevelsOf(power_table, factor)) = 2
\* a two-level factor for which Cohen's d is not defined: a level with
\* fewer than two observations, or observations that all equal the mean of
\* their level
Undefined(factor) ==
    \/ \E level \in LevelsOf(power_table, factor) :
           Len(ObservationsAt(factor, level)) < 2
    \/ \A level \in LevelsOf(power_table, factor) :
           \A i, j \in 1..Len(ObservationsAt(factor, level)) :
               ObservationsAt(factor, level)[i] = ObservationsAt(factor, level)[j]

(***************************************************************************)
(* C19: calculate_effect_sizes leaves a two-level factor out of the map    *)
(* when one of its levels has fewer than two observations or its pooled    *)
(* variance is zero, stores a finite Cohen's d for every other two-level   *)
(* factor, and never stores an infinite or undefined one.                  *)
(***************************************************************************)
C19_UndefinedEffectOmitted ==
    (power_op = "calculate_effect_sizes" /\ power_table # <<>>) =>
        /\ power_raised = ""
        /\ cohen_effect_sizes # None
        /\ \A factor \in FactorNames :
               TwoLevel(factor) =>
                   IF Undefined(factor)
                   THEN factor \notin DOMAIN cohen_effect_sizes[1]
                   ELSE /\ factor \in DOMAIN cohen_effect_sizes[1]
                        /\ IsFinite(cohen_effect_sizes[1][factor].cohens_d)

\* the sample size is unbounded or at least n
VeryLarge(x, n) == x = Inf \/ (IsFinite(x) /\ ~FLess(x.value, Whole(n)))

(***************************************************************************)
(* C20: for a factor whose effect size is exactly 0,                       *)
(* power_analysis_for_factors returns normally and gives, at each of the   *)
(* target powers 0.8, 0.9 and 0.95, a sample size per group that is        *)
(* unbounded or very large (400 or more), never a small, zero or           *)
(* undefined one; every factor of the effect sizes gets a result for       *)
(* every target power.                                                     *)
(***************************************************************************)
C20_ZeroEffectGivesUnboundedN ==
    power_op = "power_analysis_for_factors" =>
        /\ power_raised = ""
        /\ power_results # None
        /\ DOMAIN power_results[1] = DOMAIN cohen_effect_sizes[1] \ {"category"}
        /\ \A factor \in DOMAIN power_results[1] :
               /\ DOMAIN power_results[1][factor] = {80, 90, 95}
               /\ cohen_effect_sizes[1][factor].cohens_d = Finite(Whole(0)) =>
                      \A power \in {80, 90, 95} :
                          LET r == power_results[1][factor][power]
                          IN  /\ VeryLarge(r.n_per_group, 400)
                              /\ VeryLarge(r.total_n, 800)
                              /\ VeryLarge(r.total_with_categories, 19200)

\* prompt_language has the effect size 0 (both levels have the scores 0.3
\* and 0.9) and an unbounded sample size, while model, with a single row at
\* one level, is processed too
C20_Witness ==
    /\ power_op = "power_analysis_for_factors"
    /\ ~formula_raises
    /\ Len(power_table) = 4
    /\ cohen_effect_sizes[1]["prompt_language"].cohens_d = Finite(Whole(0))
    /\ cohen_effect_sizes[1]["prompt_language"].pooled_std = Finite(Whole(18))
    /\ \A power \in {80, 90, 95} :
           power_results[1]["prompt_language"][power].n_per_group = Inf
    /\ "model" \in DOMAIN power_results[1]

(***************************************************************************)
(* Vocabulary of the claims about the sample sizes of the power analysis.  *)
(***************************************************************************)
\* the number of rows of the analysed table at a level of a factor
RowsPerLevel(factor, level) == Len(RowsAt(power_table, factor, level))
\* the factor combination of a row
CombinationOf(row) == [f \in FactorNames |-> row[f]]
\* the distinct factor combinations of the analysed design that share a
\* level of a factor
SharedCombinations(factor, level) ==
    {CombinationOf(power_table[r]) :
        r \in {k \in 1..Len(power_table) : power_table[k][factor] = level}}
\* the blocks of the analysed design
BlocksOfTable == LevelsOf(power_table, "category")
\* the scores of a group that are present
Present(group) == SelectSeq(group, LAMBDA v : v # None)

(***************************************************************************)
(* C21: current_power_analysis evaluates the power of every two-level      *)
(* factor at a per-group n equal to the number of observations at each     *)
(* level of the factor in the analysed table.                              *)
(***************************************************************************)
C21_PowerAtCurrentSampleSize ==
    power_op = "current_power_analysis" =>
        /\ current_powers # None
        /\ DOMAIN current_powers[1] = DOMAIN cohen_effect_sizes[1] \ {"category"}
        /\ \A factor \in DOMAIN current_powers[1] :
               \A level \in LevelsOf(power_table, factor) :
                   current_powers[1][factor].nobs =
                       Finite(Whole(RowsPerLevel(factor, level)))

(***************************************************************************)
(* C22: the total unit count of a factor at a target power is the          *)
(* per-group sample size x 2 levels x the number of distinct factor        *)
(* combinations of the analysed design sharing one level of the factor x   *)
(* the number of blocks of the analysed design.                            *)
(***************************************************************************)
C22_TotalScalesWithDesign ==
    power_op = "power_analysis_for_factors" =>
        \A factor \in DOMAIN power_results[1] :
            \A power \in DOMAIN power_results[1][factor] :
                \A level \in LevelsOf(power_table, factor) :
                    LET r == power_results[1][factor][power]
                    IN  r.total_with_categories =
                            Times(Times(Times(r.n_per_group, 2),
                                        Cardinality(SharedCombinations(factor, level))),
                                  Cardinality(BlocksOfTable))

(***************************************************************************)
(* C23: a unit without a score contributes to no statistic of the Cohen's  *)
(* d effect sizes: the means and the pooled variance of every factor are   *)
(* those of the scored units alone, the group sizes of the pooled          *)
(* variance counting scored units only.                                    *)
(***************************************************************************)
C23_NullScoresExcluded ==
    (power_op = "calculate_effect_sizes" /\ cohen_effect_sizes # None) =>
        \A factor \in DOMAIN cohen_effect_sizes[1] \ {"category"} :
            LET names  == GroupKeys(power_table, factor)
                group1 == Present(GetGroup(power_table, factor, names[1]))
                group2 == Present(GetGroup(power_table, factor, names[2]))
                e      == cohen_effect_sizes[1][factor]
            IN  /\ e.group1_mean = SeriesMean(group1)
                /\ e.group2_mean = SeriesMean(group2)
                /\ e.pooled_std = PooledVariance(group1, group2)

(***************************************************************************)
(* Vocabulary of the claims about a run of the 2^4 experiment.             *)
(***************************************************************************)
\* the fields of a unit: factor levels, block, stimulus, responses, score
UnitFields(unit) ==
    [factor_combination |-> unit.factor_combination,
     category           |-> unit.category,
     base_question      |-> unit.base_question,
     generated_prompt   |-> unit.generated_prompt,
     responses          |-> unit.responses,
     score              |-> unit.score]
RunMode == run_args[1].mode
\* the stage was started
Started(stage) == \E k \in 1..Len(run_started) : run_started[k] = stage
\* the number of stages that were started and did not raise
CompletedStages ==
    IF run_raised = "" THEN Len(run_started) ELSE Len(run_started) - 1
\* the API calls of a unit that returned a response
SuccessfulCalls(unit) == {k \in 1..Len(unit.calls) : unit.calls[k] = "ok"}
\* the intermediate files of the output directory, in the order written
IntermediateFiles ==
    SelectSeq(files, LAMBDA f : f.stage \in {"01", "02", "03"})
\* those the run wrote
IntermediateFilesOfRun ==
    SelectSeq(IntermediateFiles, LAMBDA f : f.by = "this")
\* the name of the intermediate file of a stage
StageFile(stage) == <<"01", "02", "03">>[stage]
\* the API key is configured
KeyConfigured == run_args[1].api_key \notin {None, Some("")}

(***************************************************************************)
(* C24: during a run the units are created with no responses and no        *)
(* score and are never added or removed afterwards; responses, once        *)
(* attached, are not attached again; a score is attached only to a unit    *)
(* whose responses were attached in an earlier step; once a unit has its   *)
(* score none of its fields changes.                                       *)
(***************************************************************************)
C24_UnitLifecycle ==
    [][IF run_units = <<>>
       THEN \A i \in 1..Len(run_units') :
                /\ ~run_units'[i].has_responses
                /\ ~run_units'[i].has_score
                /\ run_units'[i].responses = <<>>
       ELSE /\ Len(run_units') = Len(run_units)
            /\ \A i \in 1..Len(run_units) :
                   LET before == run_units[i]
                       after  == run_units'[i]
                   IN  /\ before.has_responses =>
                              /\ after.has_responses
                              /\ after.responses = before.responses
                       /\ before.has_score =>
                              /\ after.has_score
                              /\ UnitFields(after) = UnitFields(before)
                       /\ (after.has_score /\ ~before.has_score) =>
                              before.has_responses]_vars

\* a demo run that returned its results: each of the 12 units has its
\* five responses and its score
C24_Witness ==
    /\ run_pc = "returned"
    /\ run_result # None
    /\ Len(run_units) = 12
    /\ \A i \in 1..Len(run_units) :
           /\ run_units[i].has_responses
           /\ Len(run_units[i].responses) = 5
           /\ run_units[i].has_score
           /\ run_units[i].score # None

(***************************************************************************)
(* C25: a failure is recorded for a response only after its API call was   *)
(* retried, at least once and at most retry_attempts times.                *)
(***************************************************************************)
C25_FailedCallRetried ==
    \A i \in 1..Len(run_units) :
        run_units[i].has_responses =>
            \A k \in 1..Len(run_units[i].calls) :
                run_units[i].calls[k] = "raised" =>
                    /\ run_units[i].attempts[k] > 1
                    /\ run_units[i].attempts[k] <= 1 + RETRY_ATTEMPTS

(***************************************************************************)
(* C26: the responses of a unit are the texts the successful API calls     *)
(* returned: a failed call adds no entry, n_responses counts the           *)
(* successful calls, and no response is an error message.                  *)
(***************************************************************************)
C26_ResponsesAreModelText ==
    \A i \in 1..Len(run_units) :
        run_units[i].has_responses =>
            /\ Len(run_units[i].responses) = Cardinality(SuccessfulCalls(run_units[i]))
            /\ run_units[i].n_responses = Cardinality(SuccessfulCalls(run_units[i]))
            /\ \A k \in 1..Len(run_units[i].responses) :
                   run_units[i].responses[k] # ErrorText

(***************************************************************************)
(* C27: the number of units handed to the response collection is the       *)
(* mode's max_conditions: demo 12, test 36, representative 48, full 336.   *)
(***************************************************************************)
C27_UnitsEqualMaxConditions ==
    (run_pc = "responses" \/ Started(2)) =>
        /\ Len(run_units) = EXPERIMENT_MODES[RunMode].max_conditions
        /\ Len(run_units) = (CASE RunMode = "demo"           -> 12
                               [] RunMode = "test"           -> 36
                               [] RunMode = "representative" -> 48
                               [] RunMode = "full"           -> 336)

(***************************************************************************)
(* C28: the total_requests of the cost estimate announced before the run   *)
(* is the number of API requests the response collection makes: the        *)
(* number of units generated x the number of responses per unit.           *)
(***************************************************************************)
C28_AnnouncedRequestsMade ==
    (Started(2) /\ CompletedStages >= 2) =>
        /\ announced # None
        /\ announced[1].total_requests =
               SumSeq([i \in 1..Len(run_units) |-> SumSeq(run_units[i].attempts)])
        /\ announced[1].total_requests =
               Len(run_units) * get_experiment_config(RunMode).n_responses

(***************************************************************************)
(* C29 as stated: no stage starts unless an API key is configured and, in  *)
(* a mode other than demo, the user answered 'y'; otherwise the run        *)
(* returns no result and starts no stage.                                  *)
(***************************************************************************)
C29_NoStageWithoutKeyAndYes ==
    run_args # None =>
        \/ KeyConfigured /\ (RunMode = "demo" \/ run_args[1].answer = "y")
        \/ /\ run_started = <<>>
           /\ run_units = <<>>
           /\ run_pc = "returned"
           /\ run_result = None

(***************************************************************************)
(* C29 as amended: no stage starts unless an API key is configured and,    *)
(* in a mode other than demo, the user answered 'y' or 'Y'; otherwise the  *)
(* run returns no result and starts no stage.                              *)
(***************************************************************************)
C29_NoStageWithoutKeyAndConfirmation ==
    run_args # None =>
        \/ KeyConfigured /\ (RunMode = "demo" \/ run_args[1].answer \in {"y", "Y"})
        \/ /\ run_started = <<>>
           /\ run_units = <<>>
           /\ run_pc = "returned"
           /\ run_result = None

\* a run of another mode than demo that the answer 'Y' let start
C29_Witness ==
    /\ run_args # None
    /\ KeyConfigured
    /\ RunMode = "test"
    /\ run_args[1].answer = "Y"
    /\ Started(1)
    /\ run_units # <<>>

(***************************************************************************)
(* C30 as stated: with intermediate saving enabled the intermediate files  *)
(* of the output directory are, in stage order, those of the stages the    *)
(* run completed: when a stage fails the files of all earlier stages       *)
(* exist and no file of the failed stage or of a later one does.           *)
(***************************************************************************)
C30_OnlyFilesOfCompletedStagesExist ==
    (run_args # None /\ run_args[1].save_intermediate) =>
        LET done == IF CompletedStages > 3 THEN 3 ELSE CompletedStages
        IN  /\ Len(IntermediateFiles) = done
            /\ \A k \in 1..done :
                   /\ IntermediateFiles[k].stage = StageFile(k)
                   /\ IntermediateFiles[k].mode = RunMode

(***************************************************************************)
(* C30 as amended: with intermediate saving enabled the intermediate files *)
(* the run has written are, in stage order, those of the stages it         *)
(* completed: when a stage fails the files of all earlier stages have      *)
(* been written by the run and no file of the failed stage or of a later   *)
(* one has.  Without intermediate saving the run writes none.              *)
(***************************************************************************)
C30_IntermediateFilesFollowStages ==
    run_args # None =>
        LET done == IF CompletedStages > 3 THEN 3 ELSE CompletedStages
        IN  IntermediateFilesOfRun =
                IF run_args[1].save_intermediate
                THEN [k \in 1..done |-> OutputFile(StageFile(k), RunMode, "this")]
                ELSE <<>>

\* the consistency analysis failed in a directory an earlier run had
\* filled: the prompts and the responses of the run are saved, the scores
\* in the directory are those of the earlier run
C30_Witness ==
    /\ run_args # None
    /\ run_args[1].save_intermediate
    /\ run_started = <<1, 2, 3>>
    /\ run_raised = "TypeError"
    /\ IntermediateFiles = << OutputFile("03", RunMode, "earlier"),
                              OutputFile("01", RunMode, "this"),
                              OutputFile("02", RunMode, "this") >>

====
